---- MODULE Spec2Model ----
(***************************************************************************)
(* Model of the z3_wxvisor paging theorems: the scenario functions of      *)
(* paging, paging_alias, paging_wx_memory, paging_alias_wx_unsatisfiable   *)
(* and wxvisor.  Each scenario function creates a z3 Solver, asserts       *)
(* constraints over bit-vector symbols and uninterpreted functions, calls  *)
(* check() and returns the verdict.                                        *)
(*                                                                         *)
(* The bit-vector sort BitVecSort(32) and the page mask 0xFFF are scaled   *)
(* to AddrBits and PageBits bits; every operation on them keeps its        *)
(* modular / bitwise meaning.  The solver is modelled as an exhaustive     *)
(* search for an interpretation of the symbols occurring in the asserted   *)
(* constraints.                                                            *)
(***************************************************************************)
EXTENDS Integers, Sequences, FiniteSets, TLC

VARIABLES fn, args, ip, solver, CheckSatResult, outcome, ncalls, previous

vars == <<fn, args, ip, solver, CheckSatResult, outcome, ncalls, previous>>

\* ------------------------------------------------------------------ bounds
\* width of the address sort (BitVecSort(32) in the source)
AddrBits == 3
\* number of page-offset bits (the mask 0xFFF has 12 in the source)
PageBits == 1
\* literals handed to the scenario functions range over 0..MaxLit
MaxLit == 9
\* a process makes at most MaxCalls invocations of scenario functions
MaxCalls == 2

\* ------------------------------------------------------- bit-vector sort
RECURSIVE Pow2(_)
Pow2(k) == IF k = 0 THEN 1 ELSE 2 * Pow2(k - 1)

AddrSpace == Pow2(AddrBits)

\* the values of BitVecSort(32)
BitVecSort == 0 .. (AddrSpace - 1)

\* the mask 0xFFF
PageMask == Pow2(PageBits) - 1

\* BitVecVal(v, 32): z3 keeps the low bits of v
BitVecVal(v) == v % AddrSpace

\* the bit-vector operator &
RECURSIVE BitAnd(_, _)
BitAnd(x, y) ==
    IF x = 0 \/ y = 0 THEN 0
    ELSE (x % 2) * (y % 2) + 2 * BitAnd(x \div 2, y \div 2)

\* Distinct(a, b) and Distinct(a, b, c)
Distinct2(x, y) == x # y

Distinct3(x, y, z) == x # y /\ x # z /\ y # z

Literals == 0 .. MaxLit


\* ------------------------------------------------------ interpretations
(* An interpretation assigns a value to each constant symbol (va, va1,    *)
(* va2, pa, ipa, ipa1, ipa2, write, execute) and a graph to each          *)
(* uninterpreted function (mmu1, mmu2, ro_bits, nx_bits, ro_bits2,        *)
(* nx_bits2, phy_ro, phy_nx).  A function's graph is kept at the points   *)
(* where the asserted constraints apply it; a TLA+ function gives equal   *)
(* results at equal arguments, as an uninterpreted function must.         *)

EmptyInterp ==
    [mmu1 |-> <<>>, mmu2 |-> <<>>, ro_bits |-> <<>>, nx_bits |-> <<>>,
     ro_bits2 |-> <<>>, nx_bits2 |-> <<>>, phy_ro |-> <<>>, phy_nx |-> <<>>]

\* the graphs extending f with a value at point x
ExtendAt(f, x, Rng) ==
    IF x \in DOMAIN f THEN {f} ELSE {(x :> v) @@ f : v \in Rng}

\* the terms the constraints are built from, in the order the search
\* assigns them
TermOrder ==
    << "write", "execute", "va", "mmu1(va)", "ipa", "mmu2(ipa)",
       "mmu2(mmu1(va))", "pa",
       "phy_ro(mmu2(mmu1(va)))", "phy_nx(mmu2(mmu1(va)))",
       "phy_ro(mmu1(va))", "phy_nx(mmu1(va))", "phy_ro(pa)", "phy_nx(pa)",
       "nx_bits(va)", "nx_bits2(mmu1(va))", "ro_bits(va)", "ro_bits2(mmu1(va))",
       "va1", "nx_bits(va1)", "ro_bits(va1)", "mmu1(va1)",
       "nx_bits2(mmu1(va1))", "ro_bits2(mmu1(va1))", "phy_ro(mmu1(va1))",
       "ipa1", "mmu2(ipa1)",
       "mmu2(mmu1(va1))",
       "va2", "nx_bits(va2)", "mmu1(va2)", "phy_nx(mmu1(va2))", "ipa2",
       "mmu2(mmu1(va2))",
       "ro_bits(param)", "nx_bits(param)" >>

\* the interpretations that extend I by a value for term t; a is the
\* argument tuple of the call, for the terms built from a parameter
Extend(I, t, a) ==
    CASE t = "write"   -> {I @@ [write |-> b] : b \in BOOLEAN}
      [] t = "execute" -> {I @@ [execute |-> b] : b \in BOOLEAN}
      [] t = "va"   -> {I @@ [va |-> v] : v \in BitVecSort}
      [] t = "va1"  -> {I @@ [va1 |-> v] : v \in BitVecSort}
      [] t = "va2"  -> {I @@ [va2 |-> v] : v \in BitVecSort}
      [] t = "pa"   -> {I @@ [pa |-> v] : v \in BitVecSort}
      [] t = "ipa"  -> {I @@ [ipa |-> v] : v \in BitVecSort}
      [] t = "ipa1" -> {I @@ [ipa1 |-> v] : v \in BitVecSort}
      [] t = "ipa2" -> {I @@ [ipa2 |-> v] : v \in BitVecSort}
      [] t = "mmu1(va)"  ->
            {[I EXCEPT !.mmu1 = g] : g \in ExtendAt(I.mmu1, I.va, BitVecSort)}
      [] t = "mmu1(va1)" ->
            {[I EXCEPT !.mmu1 = g] : g \in ExtendAt(I.mmu1, I.va1, BitVecSort)}
      [] t = "mmu1(va2)" ->
            {[I EXCEPT !.mmu1 = g] : g \in ExtendAt(I.mmu1, I.va2, BitVecSort)}
      [] t = "mmu2(ipa)" ->
            {[I EXCEPT !.mmu2 = g] : g \in ExtendAt(I.mmu2, I.ipa, BitVecSort)}
      [] t = "mmu2(ipa1)" ->
            {[I EXCEPT !.mmu2 = g] : g \in ExtendAt(I.mmu2, I.ipa1, BitVecSort)}
      [] t = "mmu2(mmu1(va))" ->
            {[I EXCEPT !.mmu2 = g] :
                g \in ExtendAt(I.mmu2, I.mmu1[I.va], BitVecSort)}
      [] t = "mmu2(mmu1(va2))" ->
            {[I EXCEPT !.mmu2 = g] :
                g \in ExtendAt(I.mmu2, I.mmu1[I.va2], BitVecSort)}
      [] t = "phy_ro(mmu2(mmu1(va)))" ->
            {[I EXCEPT !.phy_ro = g] :
                g \in ExtendAt(I.phy_ro, I.mmu2[I.mmu1[I.va]], BOOLEAN)}
      [] t = "phy_nx(mmu2(mmu1(va)))" ->
            {[I EXCEPT !.phy_nx = g] :
                g \in ExtendAt(I.phy_nx, I.mmu2[I.mmu1[I.va]], BOOLEAN)}
      [] t = "phy_ro(mmu1(va))" ->
            {[I EXCEPT !.phy_ro = g] :
                g \in ExtendAt(I.phy_ro, I.mmu1[I.va], BOOLEAN)}
      [] t = "phy_nx(mmu1(va))" ->
            {[I EXCEPT !.phy_nx = g] :
                g \in ExtendAt(I.phy_nx, I.mmu1[I.va], BOOLEAN)}
      [] t = "phy_ro(mmu1(va1))" ->
            {[I EXCEPT !.phy_ro = g] :
                g \in ExtendAt(I.phy_ro, I.mmu1[I.va1], BOOLEAN)}
      [] t = "phy_nx(mmu1(va2))" ->
            {[I EXCEPT !.phy_nx = g] :
                g \in ExtendAt(I.phy_nx, I.mmu1[I.va2], BOOLEAN)}
      [] t = "phy_ro(pa)" ->
            {[I EXCEPT !.phy_ro = g] : g \in ExtendAt(I.phy_ro, I.pa, BOOLEAN)}
      [] t = "phy_nx(pa)" ->
            {[I EXCEPT !.phy_nx = g] : g \in ExtendAt(I.phy_nx, I.pa, BOOLEAN)}
      [] t = "ro_bits(va)" ->
            {[I EXCEPT !.ro_bits = g] : g \in ExtendAt(I.ro_bits, I.va, BOOLEAN)}
      [] t = "ro_bits(va1)" ->
            {[I EXCEPT !.ro_bits = g] : g \in ExtendAt(I.ro_bits, I.va1, BOOLEAN)}
      [] t = "nx_bits(va)" ->
            {[I EXCEPT !.nx_bits = g] : g \in ExtendAt(I.nx_bits, I.va, BOOLEAN)}
      [] t = "nx_bits(va1)" ->
            {[I EXCEPT !.nx_bits = g] : g \in ExtendAt(I.nx_bits, I.va1, BOOLEAN)}
      [] t = "nx_bits(va2)" ->
            {[I EXCEPT !.nx_bits = g] : g \in ExtendAt(I.nx_bits, I.va2, BOOLEAN)}
      [] t = "ro_bits2(mmu1(va))" ->
            {[I EXCEPT !.ro_bits2 = g] :
                g \in ExtendAt(I.ro_bits2, I.mmu1[I.va], BOOLEAN)}
      [] t = "ro_bits2(mmu1(va1))" ->
            {[I EXCEPT !.ro_bits2 = g] :
                g \in ExtendAt(I.ro_bits2, I.mmu1[I.va1], BOOLEAN)}
      [] t = "nx_bits2(mmu1(va))" ->
            {[I EXCEPT !.nx_bits2 = g] :
                g \in ExtendAt(I.nx_bits2, I.mmu1[I.va], BOOLEAN)}
      [] t = "nx_bits2(mmu1(va1))" ->
            {[I EXCEPT !.nx_bits2 = g] :
                g \in ExtendAt(I.nx_bits2, I.mmu1[I.va1], BOOLEAN)}
      [] t = "mmu2(mmu1(va1))" ->
            {[I EXCEPT !.mmu2 = g] :
                g \in ExtendAt(I.mmu2, I.mmu1[I.va1], BitVecSort)}
      [] t = "ro_bits(param)" ->
            {[I EXCEPT !.ro_bits = g] :
                g \in ExtendAt(I.ro_bits, BitVecVal(a[1]), BOOLEAN)}
      [] t = "nx_bits(param)" ->
            {[I EXCEPT !.nx_bits = g] :
                g \in ExtendAt(I.nx_bits, BitVecVal(a[1]), BOOLEAN)}

\* sets of terms, closed under subterms, used to state what a constraint reads
T_mmu1_va   == {"va", "mmu1(va)"}
T_mmu1_va1  == {"va1", "mmu1(va1)"}
T_mmu1_va2  == {"va2", "mmu1(va2)"}
T_frame     == {"va", "mmu1(va)", "mmu2(mmu1(va))"}


\* ------------------------------------------------------------ wxvisor.py
\* module-level constraints of wxvisor.py, each over an interpretation I
wxvisor_constraint0(I) == I.mmu1[I.va] = I.ipa

\* faulty variant: != typed for ==
wxvisor_constraint1_nonzero(I) == BitAnd(I.va, PageMask) # 0

wxvisor_constraint1(I) == BitAnd(I.va, PageMask) = 0

wxvisor_constraint2(I) == BitAnd(I.ipa, PageMask) = 0

wxvisor_constraint3(I) == I.mmu2[I.ipa] = I.pa

wxvisor_constraint4(I) == BitAnd(I.pa, PageMask) = 0

wxvisor_constraint5(I) == Distinct3(I.va, I.va1, I.va2)

\* constraint6 as it would read if stage 1 were injective on va and va1
wxvisor_constraint6_injective(I) ==
    /\ I.mmu1[I.va1] = I.ipa1
    /\ Distinct2(I.ipa, I.ipa1)

wxvisor_constraint6(I) == I.mmu1[I.va1] = I.ipa1

wxvisor_constraint7(I) == I.mmu1[I.va2] = I.ipa2

\* faulty variant: the implication written the other way round
wxvisor_constraint8_converse(I) ==
    Distinct2(I.mmu2[I.ipa], I.mmu2[I.ipa1]) => Distinct2(I.ipa, I.ipa1)

wxvisor_constraint8(I) ==
    Distinct2(I.ipa, I.ipa1) => Distinct2(I.mmu2[I.ipa], I.mmu2[I.ipa1])

\* faulty variant: the alias's declared flag ro_bits(va1) left out
wxvisor_constraint9_without_alias(I) ==
    I.phy_ro[I.mmu2[I.mmu1[I.va]]] =
        (I.ro_bits[I.va] \/ I.ro_bits2[I.mmu1[I.va]])

\* constraint9 as it would read if the declared flags only bounded the
\* physical flag from above
wxvisor_constraint9_upper_bound(I) ==
    I.phy_ro[I.mmu2[I.mmu1[I.va]]] =>
        (I.ro_bits[I.va] \/ I.ro_bits2[I.mmu1[I.va]]
            \/ I.ro_bits[I.va1] \/ I.ro_bits2[I.mmu1[I.va]])

\* constraint9 as it would read with the stage-1 flags alone
wxvisor_constraint9_stage1_only(I) ==
    I.phy_ro[I.mmu2[I.mmu1[I.va]]] = (I.ro_bits[I.va] \/ I.ro_bits[I.va1])

\* the last disjunct repeats ro_bits2(mmu1(va)), as the source does
wxvisor_constraint9(I) ==
    I.phy_ro[I.mmu2[I.mmu1[I.va]]] =
        (I.ro_bits[I.va] \/ I.ro_bits2[I.mmu1[I.va]]
            \/ I.ro_bits[I.va1] \/ I.ro_bits2[I.mmu1[I.va]])

\* faulty variant: the alias's declared flag nx_bits(va1) left out
wxvisor_constraint10_without_alias(I) ==
    I.phy_nx[I.mmu2[I.mmu1[I.va]]] =
        (I.nx_bits[I.va] \/ I.nx_bits2[I.mmu1[I.va]]
            \/ I.nx_bits2[I.mmu1[I.va1]])

wxvisor_constraint10(I) ==
    I.phy_nx[I.mmu2[I.mmu1[I.va]]] =
        (I.nx_bits[I.va] \/ I.nx_bits2[I.mmu1[I.va]]
            \/ I.nx_bits[I.va1] \/ I.nx_bits2[I.mmu1[I.va1]])

\* faulty variant: phy_ro typed twice
wxvisor_constraint_wx_same(I) ==
    Distinct2(I.phy_ro[I.mmu2[I.mmu1[I.va]]], I.phy_ro[I.mmu2[I.mmu1[I.va]]])

wxvisor_constraint_wx(I) ==
    Distinct2(I.phy_ro[I.mmu2[I.mmu1[I.va]]], I.phy_nx[I.mmu2[I.mmu1[I.va]]])

wxvisor_constraint11(I) == I.write => (I.ro_bits2[I.mmu1[I.va]] = FALSE)

\* constraint12 as it would read if a write left the frame read-only
wxvisor_constraint12_read_only(I) ==
    I.write => (I.phy_ro[I.mmu2[I.mmu1[I.va]]] = TRUE)

wxvisor_constraint12(I) == I.write => (I.phy_ro[I.mmu2[I.mmu1[I.va]]] = FALSE)

wxvisor_constraint13(I) == I.execute => (I.nx_bits2[I.mmu1[I.va]] = FALSE)

\* faulty variant: constraint12's phy_ro copied where phy_nx is meant
wxvisor_constraint14_phy_ro(I) ==
    I.execute => (I.phy_ro[I.mmu2[I.mmu1[I.va]]] = FALSE)

wxvisor_constraint14(I) == I.execute => (I.phy_nx[I.mmu2[I.mmu1[I.va]]] = FALSE)

\* s.add(va == BitVecVal(<first argument>, 32)), va the module's symbol
wxvisor_bind_va(I, a) == I.va = BitVecVal(a[1])

\* faulty variant: the second literal bound to va instead of va1
wxvisor_bind_va1_to_va(I, a) == I.va = BitVecVal(a[2])

\* s.add(va1 == BitVecVal(<second argument>, 32))
wxvisor_bind_va1(I, a) == I.va1 = BitVecVal(a[2])

\* is_writable(va): the parameter va hides the module's symbol va, so
\* va == BitVecVal(va, 32) compares the integer argument with its own
\* bit-vector value (z3 coerces the integer to the same sort)
wxvisor_bind_param(I, a) == BitVecVal(a[1]) = BitVecVal(a[1])

\* s.add(write == True); also the And(write == True) of
\* is_writable_and_executable, a conjunction of one
wxvisor_write_true(I) == I.write = TRUE

\* s.add(execute == True); also the second argument of
\* s.add(And(write == True), (execute == True))
wxvisor_execute_true(I) == I.execute = TRUE

\* s.add(Distinct(ro_bits(va1), ro_bits(va)))
wxvisor_distinct_ro(I) == Distinct2(I.ro_bits[I.va1], I.ro_bits[I.va])

\* s.add(Distinct(nx_bits(va1), nx_bits(va)))
wxvisor_distinct_nx(I) == Distinct2(I.nx_bits[I.va1], I.nx_bits[I.va])

\* whether interpretation I satisfies the wxvisor assertion named n
wxvisor_holds(n, I, a) ==
    CASE n = "constraint0"   -> wxvisor_constraint0(I)
      [] n = "constraint1"   -> wxvisor_constraint1(I)
      [] n = "constraint2"   -> wxvisor_constraint2(I)
      [] n = "constraint3"   -> wxvisor_constraint3(I)
      [] n = "constraint4"   -> wxvisor_constraint4(I)
      [] n = "constraint5"   -> wxvisor_constraint5(I)
      [] n = "constraint6"   -> wxvisor_constraint6(I)
      [] n = "constraint7"   -> wxvisor_constraint7(I)
      [] n = "constraint8"   -> wxvisor_constraint8(I)
      [] n = "constraint9"   -> wxvisor_constraint9(I)
      [] n = "constraint10"  -> wxvisor_constraint10(I)
      [] n = "constraint11"  -> wxvisor_constraint11(I)
      [] n = "constraint12"  -> wxvisor_constraint12(I)
      [] n = "constraint13"  -> wxvisor_constraint13(I)
      [] n = "constraint14"  -> wxvisor_constraint14(I)
      [] n = "constraint_wx" -> wxvisor_constraint_wx(I)
      [] n = "bind_va"       -> wxvisor_bind_va(I, a)
      [] n = "bind_va1"      -> wxvisor_bind_va1(I, a)
      [] n = "bind_param"    -> wxvisor_bind_param(I, a)
      [] n = "write_true"    -> wxvisor_write_true(I)
      [] n = "execute_true"  -> wxvisor_execute_true(I)
      [] n = "distinct_ro"   -> wxvisor_distinct_ro(I)
      [] n = "distinct_nx"   -> wxvisor_distinct_nx(I)

\* the terms each wxvisor assertion reads
wxvisor_uses ==
    [constraint0   |-> T_mmu1_va \cup {"ipa"},
     constraint1   |-> {"va"},
     constraint2   |-> {"ipa"},
     constraint3   |-> {"ipa", "mmu2(ipa)", "pa"},
     constraint4   |-> {"pa"},
     constraint5   |-> {"va", "va1", "va2"},
     constraint6   |-> T_mmu1_va1 \cup {"ipa1"},
     constraint7   |-> T_mmu1_va2 \cup {"ipa2"},
     constraint8   |-> {"ipa", "ipa1", "mmu2(ipa)", "mmu2(ipa1)"},
     constraint9   |-> T_frame \cup {"phy_ro(mmu2(mmu1(va)))", "ro_bits(va)",
                           "ro_bits2(mmu1(va))", "va1", "ro_bits(va1)"},
     constraint10  |-> T_frame \cup T_mmu1_va1 \cup
                          {"phy_nx(mmu2(mmu1(va)))", "nx_bits(va)",
                           "nx_bits2(mmu1(va))", "nx_bits(va1)",
                           "nx_bits2(mmu1(va1))"},
     constraint11  |-> T_mmu1_va \cup {"write", "ro_bits2(mmu1(va))"},
     constraint12  |-> T_frame \cup {"write", "phy_ro(mmu2(mmu1(va)))"},
     constraint13  |-> T_mmu1_va \cup {"execute", "nx_bits2(mmu1(va))"},
     constraint14  |-> T_frame \cup {"execute", "phy_nx(mmu2(mmu1(va)))"},
     constraint_wx |-> T_frame \cup {"phy_ro(mmu2(mmu1(va)))",
                                      "phy_nx(mmu2(mmu1(va)))"},
     bind_va       |-> {"va"},
     bind_va1      |-> {"va1"},
     bind_param    |-> {},
     write_true    |-> {"write"},
     execute_true  |-> {"execute"},
     distinct_ro   |-> {"va", "va1", "ro_bits(va)", "ro_bits(va1)"},
     distinct_nx   |-> {"va", "va1", "nx_bits(va)", "nx_bits(va1)"}]


\* --------------------------------------------------- paging_wx_memory.py
paging_wx_memory_constraint0(I) == I.mmu1[I.va] = I.pa

paging_wx_memory_constraint1(I) == BitAnd(I.va, PageMask) = 0

paging_wx_memory_constraint2(I) == BitAnd(I.pa, PageMask) = 0

\* faulty variant: the two physical flags required equal, not distinct
paging_wx_memory_constraint_wx_equal(I) ==
    I.phy_ro[I.mmu1[I.va]] = I.phy_nx[I.mmu1[I.va]]

paging_wx_memory_constraint_wx(I) ==
    Distinct2(I.phy_ro[I.mmu1[I.va]], I.phy_nx[I.mmu1[I.va]])

paging_wx_memory_constraint3(I) == I.write => (I.ro_bits[I.va] = FALSE)

paging_wx_memory_constraint4(I) == I.write => (I.phy_ro[I.mmu1[I.va]] = FALSE)

paging_wx_memory_constraint5(I) == I.execute => (I.nx_bits[I.va] = FALSE)

\* faulty variant: constraint4's phy_ro copied where phy_nx is meant
paging_wx_memory_constraint6_phy_ro(I) ==
    I.execute => (I.phy_ro[I.mmu1[I.va]] = FALSE)

paging_wx_memory_constraint6(I) == I.execute => (I.phy_nx[I.mmu1[I.va]] = FALSE)

\* every function of the module names its parameter va, hiding the symbol:
\* s.add(va == BitVecVal(va, 32)) compares the argument with itself
paging_wx_memory_bind_param(I, a) == BitVecVal(a[1]) = BitVecVal(a[1])

\* s.add(write == True); also the second argument of
\* s.add(And(execute == True), (write == True))
paging_wx_memory_write_true(I) == I.write = TRUE

\* s.add(execute == True); also And(execute == True), a conjunction of one
paging_wx_memory_execute_true(I) == I.execute = TRUE

paging_wx_memory_holds(n, I, a) ==
    CASE n = "constraint0"   -> paging_wx_memory_constraint0(I)
      [] n = "constraint1"   -> paging_wx_memory_constraint1(I)
      [] n = "constraint2"   -> paging_wx_memory_constraint2(I)
      [] n = "constraint_wx" -> paging_wx_memory_constraint_wx(I)
      [] n = "constraint3"   -> paging_wx_memory_constraint3(I)
      [] n = "constraint4"   -> paging_wx_memory_constraint4(I)
      [] n = "constraint5"   -> paging_wx_memory_constraint5(I)
      [] n = "constraint6"   -> paging_wx_memory_constraint6(I)
      [] n = "bind_param"    -> paging_wx_memory_bind_param(I, a)
      [] n = "write_true"    -> paging_wx_memory_write_true(I)
      [] n = "execute_true"  -> paging_wx_memory_execute_true(I)

paging_wx_memory_uses ==
    [constraint0   |-> T_mmu1_va \cup {"pa"},
     constraint1   |-> {"va"},
     constraint2   |-> {"pa"},
     constraint_wx |-> T_mmu1_va \cup {"phy_ro(mmu1(va))", "phy_nx(mmu1(va))"},
     constraint3   |-> {"write", "va", "ro_bits(va)"},
     constraint4   |-> T_mmu1_va \cup {"write", "phy_ro(mmu1(va))"},
     constraint5   |-> {"execute", "va", "nx_bits(va)"},
     constraint6   |-> T_mmu1_va \cup {"execute", "phy_nx(mmu1(va))"},
     bind_param    |-> {},
     write_true    |-> {"write"},
     execute_true  |-> {"execute"}]

\* ------------------------------------------------ paging_wx_memory.v1.py
\* the assertions the three functions add, over symbols they declare locally
paging_wx_memory_v1_map(I) == I.mmu1[I.va] = I.pa

paging_wx_memory_v1_va_aligned(I) == BitAnd(I.va, PageMask) = 0

paging_wx_memory_v1_pa_aligned(I) == BitAnd(I.pa, PageMask) = 0

paging_wx_memory_v1_wx(I) == I.phy_ro[I.pa] # I.phy_nx[I.pa]

paging_wx_memory_v1_write_ro(I) == I.write => (I.ro_bits[I.va] = FALSE)

paging_wx_memory_v1_write_phy(I) == I.write => (I.phy_ro[I.pa] = FALSE)

paging_wx_memory_v1_exec_nx(I) == I.execute => (I.nx_bits[I.va] = FALSE)

paging_wx_memory_v1_exec_phy(I) == I.execute => (I.phy_nx[I.pa] = FALSE)

\* s.add(va == BitVecVal(va_val, 32))
paging_wx_memory_v1_bind_va(I, a) == I.va = BitVecVal(a[1])

paging_wx_memory_v1_write_true(I) == I.write = TRUE

paging_wx_memory_v1_execute_true(I) == I.execute = TRUE

paging_wx_memory_v1_holds(n, I, a) ==
    CASE n = "map"          -> paging_wx_memory_v1_map(I)
      [] n = "va_aligned"   -> paging_wx_memory_v1_va_aligned(I)
      [] n = "pa_aligned"   -> paging_wx_memory_v1_pa_aligned(I)
      [] n = "wx"           -> paging_wx_memory_v1_wx(I)
      [] n = "write_ro"     -> paging_wx_memory_v1_write_ro(I)
      [] n = "write_phy"    -> paging_wx_memory_v1_write_phy(I)
      [] n = "exec_nx"      -> paging_wx_memory_v1_exec_nx(I)
      [] n = "exec_phy"     -> paging_wx_memory_v1_exec_phy(I)
      [] n = "bind_va"      -> paging_wx_memory_v1_bind_va(I, a)
      [] n = "write_true"   -> paging_wx_memory_v1_write_true(I)
      [] n = "execute_true" -> paging_wx_memory_v1_execute_true(I)

paging_wx_memory_v1_uses ==
    [map          |-> T_mmu1_va \cup {"pa"},
     va_aligned   |-> {"va"},
     pa_aligned   |-> {"pa"},
     wx           |-> {"pa", "phy_ro(pa)", "phy_nx(pa)"},
     write_ro     |-> {"write", "va", "ro_bits(va)"},
     write_phy    |-> {"write", "pa", "phy_ro(pa)"},
     exec_nx      |-> {"execute", "va", "nx_bits(va)"},
     exec_phy     |-> {"execute", "pa", "phy_nx(pa)"},
     bind_va      |-> {"va"},
     write_true   |-> {"write"},
     execute_true |-> {"execute"}]

\* --------------------------------------------- paging.py and paging.v2.py
\* paging.py asserts these at module level; paging.v2.py asserts the same
\* five in basic_mapping(), with phy_ro(pa) and phy_nx(pa) in the last two
paging_constraint0(I) == I.mmu1[I.va] = I.pa

paging_constraint1(I) == BitAnd(I.va, PageMask) = 0

paging_constraint2(I) == BitAnd(I.pa, PageMask) = 0

paging_constraint3(I) == I.ro_bits[I.va] = I.phy_ro[I.mmu1[I.va]]

paging_constraint4(I) == I.nx_bits[I.va] = I.phy_nx[I.mmu1[I.va]]

paging_v2_ro_sync(I) == I.ro_bits[I.va] = I.phy_ro[I.pa]

paging_v2_nx_sync(I) == I.nx_bits[I.va] = I.phy_nx[I.pa]

paging_holds(n, I, a) ==
    CASE n = "constraint0" -> paging_constraint0(I)
      [] n = "constraint1" -> paging_constraint1(I)
      [] n = "constraint2" -> paging_constraint2(I)
      [] n = "constraint3" -> paging_constraint3(I)
      [] n = "constraint4" -> paging_constraint4(I)
      [] n = "v2_ro_sync"  -> paging_v2_ro_sync(I)
      [] n = "v2_nx_sync"  -> paging_v2_nx_sync(I)

paging_uses ==
    [constraint0 |-> T_mmu1_va \cup {"pa"},
     constraint1 |-> {"va"},
     constraint2 |-> {"pa"},
     constraint3 |-> T_mmu1_va \cup {"ro_bits(va)", "phy_ro(mmu1(va))"},
     constraint4 |-> T_mmu1_va \cup {"nx_bits(va)", "phy_nx(mmu1(va))"},
     v2_ro_sync  |-> {"va", "pa", "ro_bits(va)", "phy_ro(pa)"},
     v2_nx_sync  |-> {"va", "pa", "nx_bits(va)", "phy_nx(pa)"}]


\* -------------------------------------------------------- paging_alias.py
paging_alias_constraint0(I) == I.mmu1[I.va] = I.pa

paging_alias_constraint1(I) == BitAnd(I.va, PageMask) = 0

paging_alias_constraint2(I) == BitAnd(I.pa, PageMask) = 0

paging_alias_constraint3(I) == I.ro_bits[I.va] = I.phy_ro[I.mmu1[I.va]]

paging_alias_constraint4(I) == I.nx_bits[I.va] = I.phy_nx[I.mmu1[I.va]]

paging_alias_constraint5(I) == Distinct3(I.va, I.va1, I.va2)

paging_alias_constraint6(I) == I.mmu1[I.va1] = I.pa

paging_alias_constraint7(I) == I.mmu1[I.va2] = I.pa

paging_alias_constraint8(I) == BitAnd(I.va1, PageMask) = 0

paging_alias_constraint9(I) == BitAnd(I.va2, PageMask) = 0

paging_alias_constraint10(I) == Distinct2(I.ro_bits[I.va], I.ro_bits[I.va1])

paging_alias_constraint11(I) == I.ro_bits[I.va1] = I.phy_ro[I.mmu1[I.va1]]

paging_alias_constraint12(I) == Distinct2(I.nx_bits[I.va], I.nx_bits[I.va2])

paging_alias_constraint13(I) == I.nx_bits[I.va2] = I.phy_nx[I.mmu1[I.va2]]

paging_alias_holds(n, I, a) ==
    CASE n = "constraint0"  -> paging_alias_constraint0(I)
      [] n = "constraint1"  -> paging_alias_constraint1(I)
      [] n = "constraint2"  -> paging_alias_constraint2(I)
      [] n = "constraint3"  -> paging_alias_constraint3(I)
      [] n = "constraint4"  -> paging_alias_constraint4(I)
      [] n = "constraint5"  -> paging_alias_constraint5(I)
      [] n = "constraint6"  -> paging_alias_constraint6(I)
      [] n = "constraint7"  -> paging_alias_constraint7(I)
      [] n = "constraint8"  -> paging_alias_constraint8(I)
      [] n = "constraint9"  -> paging_alias_constraint9(I)
      [] n = "constraint10" -> paging_alias_constraint10(I)
      [] n = "constraint11" -> paging_alias_constraint11(I)
      [] n = "constraint12" -> paging_alias_constraint12(I)
      [] n = "constraint13" -> paging_alias_constraint13(I)

paging_alias_uses ==
    [constraint0  |-> T_mmu1_va \cup {"pa"},
     constraint1  |-> {"va"},
     constraint2  |-> {"pa"},
     constraint3  |-> T_mmu1_va \cup {"ro_bits(va)", "phy_ro(mmu1(va))"},
     constraint4  |-> T_mmu1_va \cup {"nx_bits(va)", "phy_nx(mmu1(va))"},
     constraint5  |-> {"va", "va1", "va2"},
     constraint6  |-> T_mmu1_va1 \cup {"pa"},
     constraint7  |-> T_mmu1_va2 \cup {"pa"},
     constraint8  |-> {"va1"},
     constraint9  |-> {"va2"},
     constraint10 |-> {"va", "va1", "ro_bits(va)", "ro_bits(va1)"},
     constraint11 |-> T_mmu1_va1 \cup {"ro_bits(va1)", "phy_ro(mmu1(va1))"},
     constraint12 |-> {"va", "va2", "nx_bits(va)", "nx_bits(va2)"},
     constraint13 |-> T_mmu1_va2 \cup {"nx_bits(va2)", "phy_nx(mmu1(va2))"}]

\* ----------------------------------------------------- paging_alias.v2.py
\* the assertions of alias_mapping() and basic_mapping(), over local symbols
paging_alias_v2_map(I) == I.mmu1[I.va] = I.pa

paging_alias_v2_va_aligned(I) == BitAnd(I.va, PageMask) = 0

paging_alias_v2_pa_aligned(I) == BitAnd(I.pa, PageMask) = 0

paging_alias_v2_ro_sync(I) == I.ro_bits[I.va] = I.phy_ro[I.pa]

paging_alias_v2_nx_sync(I) == I.nx_bits[I.va] = I.phy_nx[I.pa]

paging_alias_v2_distinct(I) == Distinct3(I.va, I.va1, I.va2)

paging_alias_v2_map_va1(I) == I.mmu1[I.va1] = I.pa

paging_alias_v2_map_va2(I) == I.mmu1[I.va2] = I.pa

paging_alias_v2_va1_aligned(I) == BitAnd(I.va1, PageMask) = 0

paging_alias_v2_va2_aligned(I) == BitAnd(I.va2, PageMask) = 0

\* faulty variant: va typed twice
paging_alias_v2_ro_differs_same(I) == I.ro_bits[I.va] # I.ro_bits[I.va]

paging_alias_v2_ro_differs(I) == I.ro_bits[I.va] # I.ro_bits[I.va1]

\* faulty variant: phy_nx typed where phy_ro is meant
paging_alias_v2_ro_sync_va1_phy_nx(I) == I.ro_bits[I.va1] = I.phy_nx[I.pa]

paging_alias_v2_ro_sync_va1(I) == I.ro_bits[I.va1] = I.phy_ro[I.pa]

paging_alias_v2_nx_differs(I) == I.nx_bits[I.va] # I.nx_bits[I.va2]

paging_alias_v2_nx_sync_va2(I) == I.nx_bits[I.va2] = I.phy_nx[I.pa]

paging_alias_v2_holds(n, I, a) ==
    CASE n = "map"         -> paging_alias_v2_map(I)
      [] n = "va_aligned"  -> paging_alias_v2_va_aligned(I)
      [] n = "pa_aligned"  -> paging_alias_v2_pa_aligned(I)
      [] n = "ro_sync"     -> paging_alias_v2_ro_sync(I)
      [] n = "nx_sync"     -> paging_alias_v2_nx_sync(I)
      [] n = "distinct"    -> paging_alias_v2_distinct(I)
      [] n = "map_va1"     -> paging_alias_v2_map_va1(I)
      [] n = "map_va2"     -> paging_alias_v2_map_va2(I)
      [] n = "va1_aligned" -> paging_alias_v2_va1_aligned(I)
      [] n = "va2_aligned" -> paging_alias_v2_va2_aligned(I)
      [] n = "ro_differs"  -> paging_alias_v2_ro_differs(I)
      [] n = "ro_sync_va1" -> paging_alias_v2_ro_sync_va1(I)
      [] n = "nx_differs"  -> paging_alias_v2_nx_differs(I)
      [] n = "nx_sync_va2" -> paging_alias_v2_nx_sync_va2(I)

paging_alias_v2_uses ==
    [map         |-> T_mmu1_va \cup {"pa"},
     va_aligned  |-> {"va"},
     pa_aligned  |-> {"pa"},
     ro_sync     |-> {"va", "pa", "ro_bits(va)", "phy_ro(pa)"},
     nx_sync     |-> {"va", "pa", "nx_bits(va)", "phy_nx(pa)"},
     distinct    |-> {"va", "va1", "va2"},
     map_va1     |-> T_mmu1_va1 \cup {"pa"},
     map_va2     |-> T_mmu1_va2 \cup {"pa"},
     va1_aligned |-> {"va1"},
     va2_aligned |-> {"va2"},
     ro_differs  |-> {"va", "va1", "ro_bits(va)", "ro_bits(va1)"},
     ro_sync_va1 |-> {"va1", "pa", "ro_bits(va1)", "phy_ro(pa)"},
     nx_differs  |-> {"va", "va2", "nx_bits(va)", "nx_bits(va2)"},
     nx_sync_va2 |-> {"va2", "pa", "nx_bits(va2)", "phy_nx(pa)"}]

\* --------------------------------------- paging_alias_wx_unsatisfiable.py
paging_alias_wx_constraint0(I) == I.mmu1[I.va] = I.pa

paging_alias_wx_constraint1(I) == BitAnd(I.va, PageMask) = 0

paging_alias_wx_constraint2(I) == BitAnd(I.pa, PageMask) = 0

\* the W^X property of this module is over the declared flags of va
paging_alias_wx_constraint_wx(I) == Distinct2(I.ro_bits[I.va], I.nx_bits[I.va])

\* Implies(write, And(ro_bits(va) == phy_ro(mmu1(va))), (ro_bits(va) == False)):
\* And has one argument; the third argument of Implies is its context
\* parameter, which z3 takes from the first two arguments, so the condition
\* ro_bits(va) == False is no part of the formula
paging_alias_wx_constraint3(I) ==
    I.write => (I.ro_bits[I.va] = I.phy_ro[I.mmu1[I.va]])

\* Implies(execute, And(nx_bits(va) == phy_nx(mmu1(va))), (nx_bits(va) == False))
paging_alias_wx_constraint4(I) ==
    I.execute => (I.nx_bits[I.va] = I.phy_nx[I.mmu1[I.va]])

paging_alias_wx_constraint5(I) == Distinct3(I.va, I.va1, I.va2)

paging_alias_wx_constraint6(I) == I.mmu1[I.va1] = I.pa

paging_alias_wx_constraint7(I) == I.mmu1[I.va2] = I.pa

paging_alias_wx_constraint8(I) == BitAnd(I.va1, PageMask) = 0

paging_alias_wx_constraint9(I) == BitAnd(I.va2, PageMask) = 0

\* constraint10 as it would read if the alias had to repeat the flag of va
paging_alias_wx_constraint10_same(I) ==
    I.ro_bits[I.va] = I.ro_bits[I.va1]

paging_alias_wx_constraint10(I) == Distinct2(I.ro_bits[I.va], I.ro_bits[I.va1])

paging_alias_wx_constraint11(I) == I.ro_bits[I.va1] = I.phy_ro[I.mmu1[I.va1]]

paging_alias_wx_constraint12(I) == Distinct2(I.nx_bits[I.va], I.nx_bits[I.va2])

paging_alias_wx_constraint13(I) == I.nx_bits[I.va2] = I.phy_nx[I.mmu1[I.va2]]

\* every function of the module names its parameter va, hiding the symbol:
\* s.add(va == BitVecVal(va, 32)) compares the argument with itself
paging_alias_wx_bind_param(I, a) == BitVecVal(a[1]) = BitVecVal(a[1])

paging_alias_wx_write_true(I) == I.write = TRUE

paging_alias_wx_execute_true(I) == I.execute = TRUE

\* s.add(Distinct(ro_bits(va1), ro_bits(va))): inside the function va is the
\* integer parameter, so the second flag is ro_bits at the literal
paging_alias_wx_distinct_ro(I, a) ==
    Distinct2(I.ro_bits[I.va1], I.ro_bits[BitVecVal(a[1])])

\* s.add(Distinct(nx_bits(va1), nx_bits(va))), va the integer parameter
paging_alias_wx_distinct_nx(I, a) ==
    Distinct2(I.nx_bits[I.va1], I.nx_bits[BitVecVal(a[1])])

paging_alias_wx_holds(n, I, a) ==
    CASE n = "constraint0"   -> paging_alias_wx_constraint0(I)
      [] n = "constraint1"   -> paging_alias_wx_constraint1(I)
      [] n = "constraint2"   -> paging_alias_wx_constraint2(I)
      [] n = "constraint_wx" -> paging_alias_wx_constraint_wx(I)
      [] n = "constraint3"   -> paging_alias_wx_constraint3(I)
      [] n = "constraint4"   -> paging_alias_wx_constraint4(I)
      [] n = "constraint5"   -> paging_alias_wx_constraint5(I)
      [] n = "constraint6"   -> paging_alias_wx_constraint6(I)
      [] n = "constraint7"   -> paging_alias_wx_constraint7(I)
      [] n = "constraint8"   -> paging_alias_wx_constraint8(I)
      [] n = "constraint9"   -> paging_alias_wx_constraint9(I)
      [] n = "constraint10"  -> paging_alias_wx_constraint10(I)
      [] n = "constraint11"  -> paging_alias_wx_constraint11(I)
      [] n = "constraint12"  -> paging_alias_wx_constraint12(I)
      [] n = "constraint13"  -> paging_alias_wx_constraint13(I)
      [] n = "bind_param"    -> paging_alias_wx_bind_param(I, a)
      [] n = "write_true"    -> paging_alias_wx_write_true(I)
      [] n = "execute_true"  -> paging_alias_wx_execute_true(I)
      [] n = "distinct_ro"   -> paging_alias_wx_distinct_ro(I, a)
      [] n = "distinct_nx"   -> paging_alias_wx_distinct_nx(I, a)

paging_alias_wx_uses ==
    [constraint0   |-> T_mmu1_va \cup {"pa"},
     constraint1   |-> {"va"},
     constraint2   |-> {"pa"},
     constraint_wx |-> {"va", "ro_bits(va)", "nx_bits(va)"},
     constraint3   |-> T_mmu1_va \cup {"write", "ro_bits(va)", "phy_ro(mmu1(va))"},
     constraint4   |-> T_mmu1_va \cup {"execute", "nx_bits(va)", "phy_nx(mmu1(va))"},
     constraint5   |-> {"va", "va1", "va2"},
     constraint6   |-> T_mmu1_va1 \cup {"pa"},
     constraint7   |-> T_mmu1_va2 \cup {"pa"},
     constraint8   |-> {"va1"},
     constraint9   |-> {"va2"},
     constraint10  |-> {"va", "va1", "ro_bits(va)", "ro_bits(va1)"},
     constraint11  |-> T_mmu1_va1 \cup {"ro_bits(va1)", "phy_ro(mmu1(va1))"},
     constraint12  |-> {"va", "va2", "nx_bits(va)", "nx_bits(va2)"},
     constraint13  |-> T_mmu1_va2 \cup {"nx_bits(va2)", "phy_nx(mmu1(va2))"},
     bind_param    |-> {},
     write_true    |-> {"write"},
     execute_true  |-> {"execute"},
     distinct_ro   |-> {"va1", "ro_bits(va1)", "ro_bits(param)"},
     distinct_nx   |-> {"va1", "nx_bits(va1)", "nx_bits(param)"}]

\* ------------------------------------ paging_alias_wx_unsatisfiable.v1.py
\* the assertions the two functions add, over symbols they declare locally
paging_alias_wx_v1_map(I) == I.mmu1[I.va] = I.pa

paging_alias_wx_v1_va_aligned(I) == BitAnd(I.va, PageMask) = 0

paging_alias_wx_v1_pa_aligned(I) == BitAnd(I.pa, PageMask) = 0

paging_alias_wx_v1_wx(I) == I.ro_bits[I.va] # I.nx_bits[I.va]

\* Implies(write, And(ro_bits(va) == phy_ro(pa), ro_bits(va) == False))
paging_alias_wx_v1_write_sync(I) ==
    I.write => (I.ro_bits[I.va] = I.phy_ro[I.pa] /\ I.ro_bits[I.va] = FALSE)

\* Implies(execute, And(nx_bits(va) == phy_nx(pa), nx_bits(va) == False))
paging_alias_wx_v1_exec_sync(I) ==
    I.execute => (I.nx_bits[I.va] = I.phy_nx[I.pa] /\ I.nx_bits[I.va] = FALSE)

paging_alias_wx_v1_distinct(I) == Distinct3(I.va, I.va1, I.va2)

paging_alias_wx_v1_map_va1(I) == I.mmu1[I.va1] = I.pa

paging_alias_wx_v1_map_va2(I) == I.mmu1[I.va2] = I.pa

paging_alias_wx_v1_va1_aligned(I) == BitAnd(I.va1, PageMask) = 0

paging_alias_wx_v1_va2_aligned(I) == BitAnd(I.va2, PageMask) = 0

\* ro_bits(va) != ro_bits(va1), and again ro_bits(va1) != ro_bits(va) once
\* the literal is bound
paging_alias_wx_v1_ro_differs(I) == I.ro_bits[I.va] # I.ro_bits[I.va1]

paging_alias_wx_v1_ro_sync_va1(I) == I.ro_bits[I.va1] = I.phy_ro[I.pa]

\* nx_bits(va) != nx_bits(va2), and again nx_bits(va2) != nx_bits(va)
paging_alias_wx_v1_nx_differs(I) == I.nx_bits[I.va] # I.nx_bits[I.va2]

paging_alias_wx_v1_nx_sync_va2(I) == I.nx_bits[I.va2] = I.phy_nx[I.pa]

paging_alias_wx_v1_bind_va(I, a) == I.va = BitVecVal(a[1])

paging_alias_wx_v1_write_true(I) == I.write = TRUE

paging_alias_wx_v1_execute_true(I) == I.execute = TRUE

paging_alias_wx_v1_holds(n, I, a) ==
    CASE n = "map"          -> paging_alias_wx_v1_map(I)
      [] n = "va_aligned"   -> paging_alias_wx_v1_va_aligned(I)
      [] n = "pa_aligned"   -> paging_alias_wx_v1_pa_aligned(I)
      [] n = "wx"           -> paging_alias_wx_v1_wx(I)
      [] n = "write_sync"   -> paging_alias_wx_v1_write_sync(I)
      [] n = "exec_sync"    -> paging_alias_wx_v1_exec_sync(I)
      [] n = "distinct"     -> paging_alias_wx_v1_distinct(I)
      [] n = "map_va1"      -> paging_alias_wx_v1_map_va1(I)
      [] n = "map_va2"      -> paging_alias_wx_v1_map_va2(I)
      [] n = "va1_aligned"  -> paging_alias_wx_v1_va1_aligned(I)
      [] n = "va2_aligned"  -> paging_alias_wx_v1_va2_aligned(I)
      [] n = "ro_differs"   -> paging_alias_wx_v1_ro_differs(I)
      [] n = "ro_sync_va1"  -> paging_alias_wx_v1_ro_sync_va1(I)
      [] n = "nx_differs"   -> paging_alias_wx_v1_nx_differs(I)
      [] n = "nx_sync_va2"  -> paging_alias_wx_v1_nx_sync_va2(I)
      [] n = "bind_va"      -> paging_alias_wx_v1_bind_va(I, a)
      [] n = "write_true"   -> paging_alias_wx_v1_write_true(I)
      [] n = "execute_true" -> paging_alias_wx_v1_execute_true(I)

paging_alias_wx_v1_uses ==
    [map          |-> T_mmu1_va \cup {"pa"},
     va_aligned   |-> {"va"},
     pa_aligned   |-> {"pa"},
     wx           |-> {"va", "ro_bits(va)", "nx_bits(va)"},
     write_sync   |-> {"write", "va", "pa", "ro_bits(va)", "phy_ro(pa)"},
     exec_sync    |-> {"execute", "va", "pa", "nx_bits(va)", "phy_nx(pa)"},
     distinct     |-> {"va", "va1", "va2"},
     map_va1      |-> T_mmu1_va1 \cup {"pa"},
     map_va2      |-> T_mmu1_va2 \cup {"pa"},
     va1_aligned  |-> {"va1"},
     va2_aligned  |-> {"va2"},
     ro_differs   |-> {"va", "va1", "ro_bits(va)", "ro_bits(va1)"},
     ro_sync_va1  |-> {"va1", "pa", "ro_bits(va1)", "phy_ro(pa)"},
     nx_differs   |-> {"va", "va2", "nx_bits(va)", "nx_bits(va2)"},
     nx_sync_va2  |-> {"va2", "pa", "nx_bits(va2)", "phy_nx(pa)"},
     bind_va      |-> {"va"},
     write_true   |-> {"write"},
     execute_true |-> {"execute"}]

\* ------------------------------------------------- examining the models
(* A property holds in every satisfying assignment of a set of assertions *)
(* exactly when the set together with the property's negation is unsat.  *)
(* The assertions below are such negations; a caller adds one to the     *)
(* assertions of a scenario and checks.                                  *)

\* the symbol va has a value other than the first literal
query_va_not_literal(I, a) == I.va # BitVecVal(a[1])

\* the symbol va1 has a value other than the second literal
query_va1_not_literal(I, a) == I.va1 # BitVecVal(a[2])

\* the physical read-only flag of the frame of va differs from the OR of the
\* declared read-only flags of both stages of va and va1
query_ro_not_combined(I) ==
    I.phy_ro[I.mmu2[I.mmu1[I.va]]] #
        (I.ro_bits[I.va] \/ I.ro_bits2[I.mmu1[I.va]]
            \/ I.ro_bits[I.va1] \/ I.ro_bits2[I.mmu1[I.va1]])

\* the physical non-executable flag of the frame of va differs from the OR of
\* the declared non-executable flags of both stages of va and va1
query_nx_not_combined(I) ==
    I.phy_nx[I.mmu2[I.mmu1[I.va]]] #
        (I.nx_bits[I.va] \/ I.nx_bits2[I.mmu1[I.va]]
            \/ I.nx_bits[I.va1] \/ I.nx_bits2[I.mmu1[I.va1]])

\* single-stage model: the declared or the physical read-only flag is set
query_write_ro_single(I) ==
    I.ro_bits[I.va] \/ I.phy_ro[I.mmu1[I.va]]

\* single-stage model: the declared or the physical non-executable flag is set
query_exec_nx_single(I) ==
    I.nx_bits[I.va] \/ I.phy_nx[I.mmu1[I.va]]

\* nested model: a declared or the physical read-only flag is set
query_write_ro_nested(I) ==
    I.ro_bits[I.va] \/ I.ro_bits2[I.mmu1[I.va]] \/ I.phy_ro[I.mmu2[I.mmu1[I.va]]]

\* nested model: a declared or the physical non-executable flag is set
query_exec_nx_nested(I) ==
    I.nx_bits[I.va] \/ I.nx_bits2[I.mmu1[I.va]] \/ I.phy_nx[I.mmu2[I.mmu1[I.va]]]

\* single-stage model: the frame of va is both or neither of read-only and
\* non-executable
query_not_exclusive_single(I) ==
    I.phy_ro[I.mmu1[I.va]] = I.phy_nx[I.mmu1[I.va]]

\* single-stage model: the frame of va is not (writable, non-executable)
query_not_data_single(I) ==
    ~(I.phy_ro[I.mmu1[I.va]] = FALSE /\ I.phy_nx[I.mmu1[I.va]] = TRUE)

\* single-stage model: the frame of va is not (executable, read-only)
query_not_code_single(I) ==
    ~(I.phy_nx[I.mmu1[I.va]] = FALSE /\ I.phy_ro[I.mmu1[I.va]] = TRUE)

\* nested model: the frame of va is both or neither of read-only and
\* non-executable
query_not_exclusive_nested(I) ==
    I.phy_ro[I.mmu2[I.mmu1[I.va]]] = I.phy_nx[I.mmu2[I.mmu1[I.va]]]

\* nested model: the frame of va is not (writable, non-executable)
query_not_data_nested(I) ==
    ~(/\ I.phy_ro[I.mmu2[I.mmu1[I.va]]] = FALSE
      /\ I.phy_nx[I.mmu2[I.mmu1[I.va]]] = TRUE)

\* nested model: the frame of va is not (executable, read-only)
query_not_code_nested(I) ==
    ~(/\ I.phy_nx[I.mmu2[I.mmu1[I.va]]] = FALSE
      /\ I.phy_ro[I.mmu2[I.mmu1[I.va]]] = TRUE)

\* the alias va1 has a nonzero page offset
query_va1_unaligned(I) ==
    BitAnd(I.va1, PageMask) # 0

\* the alias va2 has a nonzero page offset
query_va2_unaligned(I) ==
    BitAnd(I.va2, PageMask) # 0

\* the alias va1 translates to another next-stage address than va
query_va1_not_co_mapped(I) ==
    I.mmu1[I.va1] # I.mmu1[I.va]

\* the alias va2 translates to another next-stage address than va
query_va2_not_co_mapped(I) ==
    I.mmu1[I.va2] # I.mmu1[I.va]

\* va and va1 resolve to one physical frame through different intermediate
\* addresses
query_frame_shared(I) ==
    /\ I.mmu2[I.mmu1[I.va]] = I.mmu2[I.mmu1[I.va1]]
    /\ I.mmu1[I.va] # I.mmu1[I.va1]

\* the distinct addresses va and va1 translate to one next-stage address
query_va1_co_mapped(I) ==
    /\ I.va # I.va1
    /\ I.mmu1[I.va1] = I.mmu1[I.va]

\* the distinct addresses va and va1 translate to different next-stage
\* addresses
query_va1_apart(I) ==
    /\ I.va # I.va1
    /\ I.mmu1[I.va1] # I.mmu1[I.va]

\* va and va2 reach one frame through different intermediate addresses
query_stage2_shared_va2(I) ==
    /\ I.mmu1[I.va2] # I.mmu1[I.va]
    /\ I.mmu2[I.mmu1[I.va2]] = I.mmu2[I.mmu1[I.va]]

\* va1 is a true alias of va, and constraint9 and the form with
\* ro_bits2(mmu1(va1)) as fourth disjunct have different truth values
query_ro_forms_differ_co_mapped(I) ==
    /\ I.mmu1[I.va1] = I.mmu1[I.va]
    /\ wxvisor_constraint9(I) # ~query_ro_not_combined(I)

\* va1 is no alias of va, and constraint9 and the form with
\* ro_bits2(mmu1(va1)) as fourth disjunct have different truth values
query_ro_forms_differ_apart(I) ==
    /\ I.mmu1[I.va1] # I.mmu1[I.va]
    /\ wxvisor_constraint9(I) # ~query_ro_not_combined(I)

\* va1 is declared read-only and is no alias of va
query_va1_read_only_apart(I) ==
    /\ I.ro_bits[I.va1] = TRUE
    /\ I.mmu1[I.va1] # I.mmu1[I.va]

\* va1 is declared non-executable and is no alias of va
query_va1_nx_apart(I) ==
    /\ I.nx_bits[I.va1] = TRUE
    /\ I.mmu1[I.va1] # I.mmu1[I.va]

query_holds(n, I, a) ==
    CASE n = "va_not_literal"  -> query_va_not_literal(I, a)
      [] n = "va1_not_literal" -> query_va1_not_literal(I, a)
      [] n = "ro_not_combined" -> query_ro_not_combined(I)
      [] n = "nx_not_combined" -> query_nx_not_combined(I)
      [] n = "write_ro_single" -> query_write_ro_single(I)
      [] n = "exec_nx_single" -> query_exec_nx_single(I)
      [] n = "write_ro_nested" -> query_write_ro_nested(I)
      [] n = "exec_nx_nested" -> query_exec_nx_nested(I)
      [] n = "not_exclusive_single" -> query_not_exclusive_single(I)
      [] n = "not_data_single" -> query_not_data_single(I)
      [] n = "not_code_single" -> query_not_code_single(I)
      [] n = "not_exclusive_nested" -> query_not_exclusive_nested(I)
      [] n = "not_data_nested" -> query_not_data_nested(I)
      [] n = "not_code_nested" -> query_not_code_nested(I)
      [] n = "va1_unaligned" -> query_va1_unaligned(I)
      [] n = "va2_unaligned" -> query_va2_unaligned(I)
      [] n = "va1_not_co_mapped" -> query_va1_not_co_mapped(I)
      [] n = "va2_not_co_mapped" -> query_va2_not_co_mapped(I)
      [] n = "frame_shared" -> query_frame_shared(I)
      [] n = "va1_co_mapped" -> query_va1_co_mapped(I)
      [] n = "va1_apart" -> query_va1_apart(I)
      [] n = "stage2_shared_va2" -> query_stage2_shared_va2(I)
      [] n = "ro_forms_differ_co_mapped" -> query_ro_forms_differ_co_mapped(I)
      [] n = "ro_forms_differ_apart" -> query_ro_forms_differ_apart(I)
      [] n = "va1_read_only_apart" -> query_va1_read_only_apart(I)
      [] n = "va1_nx_apart" -> query_va1_nx_apart(I)

query_uses ==
    [va_not_literal  |-> {"va"},
     va1_not_literal |-> {"va1"},
     ro_not_combined |-> T_frame \cup T_mmu1_va1 \cup
                          {"phy_ro(mmu2(mmu1(va)))", "ro_bits(va)",
                           "ro_bits2(mmu1(va))", "ro_bits(va1)",
                           "ro_bits2(mmu1(va1))"},
     nx_not_combined |-> T_frame \cup T_mmu1_va1 \cup
                          {"phy_nx(mmu2(mmu1(va)))", "nx_bits(va)",
                           "nx_bits2(mmu1(va))", "nx_bits(va1)",
                           "nx_bits2(mmu1(va1))"},
     write_ro_single |-> T_mmu1_va \cup {"ro_bits(va)", "phy_ro(mmu1(va))"},
     exec_nx_single |-> T_mmu1_va \cup {"nx_bits(va)", "phy_nx(mmu1(va))"},
     write_ro_nested |-> T_frame \cup {"ro_bits(va)", "ro_bits2(mmu1(va))",
                          "phy_ro(mmu2(mmu1(va)))"},
     exec_nx_nested |-> T_frame \cup {"nx_bits(va)", "nx_bits2(mmu1(va))",
                          "phy_nx(mmu2(mmu1(va)))"},
     not_exclusive_single |-> T_mmu1_va \cup {"phy_ro(mmu1(va))", "phy_nx(mmu1(va))"},
     not_data_single |-> T_mmu1_va \cup {"phy_ro(mmu1(va))", "phy_nx(mmu1(va))"},
     not_code_single |-> T_mmu1_va \cup {"phy_ro(mmu1(va))", "phy_nx(mmu1(va))"},
     not_exclusive_nested |-> T_frame \cup {"phy_ro(mmu2(mmu1(va)))",
                          "phy_nx(mmu2(mmu1(va)))"},
     not_data_nested |-> T_frame \cup {"phy_ro(mmu2(mmu1(va)))",
                          "phy_nx(mmu2(mmu1(va)))"},
     not_code_nested |-> T_frame \cup {"phy_ro(mmu2(mmu1(va)))",
                          "phy_nx(mmu2(mmu1(va)))"},
     va1_unaligned |-> {"va1"},
     va2_unaligned |-> {"va2"},
     va1_not_co_mapped |-> T_mmu1_va \cup T_mmu1_va1,
     va2_not_co_mapped |-> T_mmu1_va \cup T_mmu1_va2,
     frame_shared |-> T_frame \cup T_mmu1_va1 \cup {"mmu2(mmu1(va1))"},
     va1_co_mapped |-> T_mmu1_va \cup T_mmu1_va1,
     va1_apart |-> T_mmu1_va \cup T_mmu1_va1,
     stage2_shared_va2 |-> T_frame \cup T_mmu1_va2 \cup {"mmu2(mmu1(va2))"},
     ro_forms_differ_co_mapped |-> T_frame \cup T_mmu1_va1 \cup
                          {"phy_ro(mmu2(mmu1(va)))", "ro_bits(va)",
                           "ro_bits2(mmu1(va))", "ro_bits(va1)",
                           "ro_bits2(mmu1(va1))"},
     ro_forms_differ_apart |-> T_frame \cup T_mmu1_va1 \cup
                          {"phy_ro(mmu2(mmu1(va)))", "ro_bits(va)",
                           "ro_bits2(mmu1(va))", "ro_bits(va1)",
                           "ro_bits2(mmu1(va1))"},
     va1_read_only_apart |-> T_mmu1_va \cup T_mmu1_va1 \cup {"ro_bits(va1)"},
     va1_nx_apart |-> T_mmu1_va \cup T_mmu1_va1 \cup {"nx_bits(va1)"}]

\* ------------------------------------------------------------ the solver
\* an assertion is named <<module, name>>
Holds(c, I, a) ==
    CASE c[1] = "wxvisor"             -> wxvisor_holds(c[2], I, a)
      [] c[1] = "paging_wx_memory"    -> paging_wx_memory_holds(c[2], I, a)
      [] c[1] = "paging_wx_memory_v1" -> paging_wx_memory_v1_holds(c[2], I, a)
      [] c[1] = "paging"              -> paging_holds(c[2], I, a)
      [] c[1] = "paging_alias"        -> paging_alias_holds(c[2], I, a)
      [] c[1] = "paging_alias_v2"     -> paging_alias_v2_holds(c[2], I, a)
      [] c[1] = "paging_alias_wx"     -> paging_alias_wx_holds(c[2], I, a)
      [] c[1] = "paging_alias_wx_v1"  -> paging_alias_wx_v1_holds(c[2], I, a)
      [] c[1] = "query"               -> query_holds(c[2], I, a)

Uses(c) ==
    CASE c[1] = "wxvisor"             -> wxvisor_uses[c[2]]
      [] c[1] = "paging_wx_memory"    -> paging_wx_memory_uses[c[2]]
      [] c[1] = "paging_wx_memory_v1" -> paging_wx_memory_v1_uses[c[2]]
      [] c[1] = "paging"              -> paging_uses[c[2]]
      [] c[1] = "paging_alias"        -> paging_alias_uses[c[2]]
      [] c[1] = "paging_alias_v2"     -> paging_alias_v2_uses[c[2]]
      [] c[1] = "paging_alias_wx"     -> paging_alias_wx_uses[c[2]]
      [] c[1] = "paging_alias_wx_v1"  -> paging_alias_wx_v1_uses[c[2]]
      [] c[1] = "query"               -> query_uses[c[2]]

TermIdx(t) == CHOOSE i \in 1 .. Len(TermOrder) : TermOrder[i] = t

\* the last term, in search order, that assertion c reads
LastTerm(c) ==
    LET idx == {TermIdx(t) : t \in Uses(c)}
    IN  TermOrder[CHOOSE i \in idx : \A j \in idx : j <= i]

\* the terms the assertions C read, in search order, each with the
\* assertions that can be evaluated once it has a value
Plan(C) ==
    LET need  == UNION {Uses(c) : c \in C}
        InNeed(t) == t \in need
        order == SelectSeq(TermOrder, InNeed)
    IN  [k \in 1 .. Len(order) |->
            [term  |-> order[k],
             ready |-> {c \in C : Uses(c) # {} /\ LastTerm(c) = order[k]}]]

\* whether some extension of I to the terms P[k], P[k+1], ... satisfies the
\* assertions that become ready there
RECURSIVE Search(_, _, _, _)
Search(P, a, I, k) ==
    IF k > Len(P) THEN TRUE
    ELSE \E J \in Extend(I, P[k].term, a) :
            /\ \A c \in P[k].ready : Holds(c, J, a)
            /\ Search(P, a, J, k + 1)

\* whether some interpretation satisfies every assertion of C
Satisfiable(C, a) ==
    /\ \A c \in C : Uses(c) = {} => Holds(c, EmptyInterp, a)
    /\ Search(Plan(C), a, EmptyInterp, 1)

\* Solver.check() on the assertions C: z3 decides quantifier-free
\* bit-vector formulas with uninterpreted functions
check(C, a) == IF Satisfiable(C, a) THEN "sat" ELSE "unsat"


\* ----------------------------------------------- the scenario functions
\* a scenario function is the sequence of its statements
stmt(o) == [op |-> o, c |-> <<>>]

add(m, n) == [op |-> "add", c |-> <<m, n>>]

\* s.add(...) of each named assertion of module m, in order
adds(m, names) == [i \in 1 .. Len(names) |-> add(m, names[i])]

wxvisor_c0_c4 ==
    <<"constraint0", "constraint1", "constraint2", "constraint3", "constraint4">>

wxvisor_c5_c10 ==
    <<"constraint5", "constraint6", "constraint7", "constraint8",
      "constraint9", "constraint10">>

wxvisor_basic_mapping ==
    <<stmt("Solver"), stmt("push")>>
    \o adds("wxvisor", wxvisor_c0_c4)
    \o adds("wxvisor", <<"bind_va">>)
    \o <<stmt("check"), stmt("pop"), stmt("return")>>

wxvisor_alias_mapping ==
    <<stmt("Solver"), stmt("push")>>
    \o adds("wxvisor", wxvisor_c0_c4 \o wxvisor_c5_c10)
    \o adds("wxvisor", <<"bind_va", "bind_va1">>)
    \o <<stmt("check"), stmt("pop"), stmt("return")>>

wxvisor_is_writable ==
    <<stmt("Solver"), stmt("push")>>
    \o adds("wxvisor", wxvisor_c0_c4 \o wxvisor_c5_c10)
    \o adds("wxvisor", <<"constraint11", "constraint12", "constraint_wx">>)
    \o adds("wxvisor", <<"bind_param", "write_true">>)
    \o <<stmt("check"), stmt("pop"), stmt("return")>>

wxvisor_is_executable ==
    <<stmt("Solver"), stmt("push")>>
    \o adds("wxvisor", wxvisor_c0_c4 \o wxvisor_c5_c10)
    \o adds("wxvisor", <<"constraint13", "constraint14", "constraint_wx">>)
    \o adds("wxvisor", <<"bind_va", "execute_true">>)
    \o <<stmt("check"), stmt("pop"), stmt("return")>>

wxvisor_is_writable_and_executable ==
    <<stmt("Solver"), stmt("push")>>
    \o adds("wxvisor", wxvisor_c0_c4 \o wxvisor_c5_c10)
    \o adds("wxvisor", <<"constraint11", "constraint12", "constraint13",
                         "constraint14", "constraint_wx">>)
    \o adds("wxvisor", <<"bind_va", "write_true", "execute_true">>)
    \o <<stmt("check"), stmt("pop"), stmt("return")>>

wxvisor_is_va_writable_but_alias_read_only ==
    <<stmt("Solver"), stmt("push")>>
    \o adds("wxvisor", <<"bind_va", "bind_va1", "distinct_ro">>)
    \o adds("wxvisor", wxvisor_c0_c4 \o wxvisor_c5_c10)
    \o adds("wxvisor", <<"constraint11", "constraint12", "constraint13",
                         "constraint14", "constraint_wx">>)
    \o adds("wxvisor", <<"write_true">>)
    \o <<stmt("check"), stmt("pop"), stmt("return")>>

wxvisor_is_va_executable_but_alias_nx ==
    <<stmt("Solver"), stmt("push")>>
    \o adds("wxvisor", <<"bind_va", "bind_va1", "distinct_nx">>)
    \o adds("wxvisor", wxvisor_c0_c4 \o wxvisor_c5_c10)
    \o adds("wxvisor", <<"constraint11", "constraint12", "constraint13",
                         "constraint14", "constraint_wx">>)
    \o adds("wxvisor", <<"execute_true">>)
    \o <<stmt("check"), stmt("pop"), stmt("return")>>

paging_wx_memory_is_writable ==
    <<stmt("Solver"), stmt("push")>>
    \o adds("paging_wx_memory",
            <<"constraint0", "constraint1", "constraint2", "constraint_wx",
              "constraint3", "constraint4", "bind_param", "write_true">>)
    \o <<stmt("check"), stmt("pop"), stmt("return")>>

paging_wx_memory_is_executable ==
    <<stmt("Solver"), stmt("push")>>
    \o adds("paging_wx_memory",
            <<"constraint0", "constraint1", "constraint2", "constraint_wx",
              "constraint5", "constraint6", "bind_param", "execute_true">>)
    \o <<stmt("check"), stmt("pop"), stmt("return")>>

paging_wx_memory_basic_mapping ==
    <<stmt("Solver"), stmt("push")>>
    \o adds("paging_wx_memory",
            <<"constraint0", "constraint1", "constraint2",
              "bind_param", "execute_true">>)
    \o <<stmt("check"), stmt("pop"), stmt("return")>>

paging_wx_memory_is_writable_and_executable ==
    <<stmt("Solver"), stmt("push")>>
    \o adds("paging_wx_memory",
            <<"constraint0", "constraint1", "constraint2", "constraint_wx",
              "constraint3", "constraint4", "constraint5", "constraint6",
              "bind_param", "execute_true", "write_true">>)
    \o <<stmt("check"), stmt("pop"), stmt("return")>>

paging_wx_memory_v1_is_writable ==
    <<stmt("Solver"), stmt("push")>>
    \o adds("paging_wx_memory_v1",
            <<"map", "va_aligned", "pa_aligned", "wx", "write_ro", "write_phy",
              "bind_va", "write_true">>)
    \o <<stmt("check"), stmt("pop"), stmt("return")>>

paging_wx_memory_v1_is_executable ==
    <<stmt("Solver"), stmt("push")>>
    \o adds("paging_wx_memory_v1",
            <<"map", "va_aligned", "pa_aligned", "wx", "exec_nx", "exec_phy",
              "bind_va", "execute_true">>)
    \o <<stmt("check"), stmt("pop"), stmt("return")>>

paging_wx_memory_v1_is_writable_and_executable ==
    <<stmt("Solver"), stmt("push")>>
    \o adds("paging_wx_memory_v1",
            <<"map", "va_aligned", "pa_aligned", "wx", "write_ro", "write_phy",
              "exec_nx", "exec_phy", "bind_va", "write_true", "execute_true">>)
    \o <<stmt("check"), stmt("pop"), stmt("return")>>

\* paging.py runs at module level and prints its verdict
paging_script ==
    <<stmt("Solver")>>
    \o adds("paging", <<"constraint0", "constraint1", "constraint2",
                        "constraint3", "constraint4">>)
    \o <<stmt("check"), stmt("print")>>

paging_v2_basic_mapping ==
    <<stmt("Solver")>>
    \o adds("paging", <<"constraint0", "constraint1", "constraint2",
                        "v2_ro_sync", "v2_nx_sync">>)
    \o <<stmt("check"), stmt("return")>>

\* paging_alias.py runs at module level and prints its verdict
paging_alias_script ==
    <<stmt("Solver")>>
    \o adds("paging_alias",
            <<"constraint0", "constraint1", "constraint2", "constraint3",
              "constraint4", "constraint5", "constraint6", "constraint7",
              "constraint8", "constraint9", "constraint10", "constraint11",
              "constraint12", "constraint13">>)
    \o <<stmt("check"), stmt("print")>>

paging_alias_v2_alias_mapping ==
    <<stmt("Solver")>>
    \o adds("paging_alias_v2",
            <<"map", "va_aligned", "pa_aligned", "ro_sync", "nx_sync",
              "distinct", "map_va1", "map_va2", "va1_aligned", "va2_aligned",
              "ro_differs", "ro_sync_va1", "nx_differs", "nx_sync_va2">>)
    \o <<stmt("check"), stmt("return")>>

paging_alias_v2_basic_mapping ==
    <<stmt("Solver")>>
    \o adds("paging_alias_v2",
            <<"map", "va_aligned", "pa_aligned", "ro_sync", "nx_sync">>)
    \o <<stmt("check"), stmt("return")>>

\* the functions of paging_alias_wx_unsatisfiable.py assert the module's
\* constraints before s.push() and return CheckSatResult == sat
paging_alias_wx_c0_c4 ==
    <<"constraint0", "constraint1", "constraint2", "constraint_wx",
      "constraint3", "constraint4">>

paging_alias_wx_c5_c13 ==
    <<"constraint5", "constraint6", "constraint7", "constraint8",
      "constraint9", "constraint10", "constraint11", "constraint12",
      "constraint13">>

paging_alias_wx_is_writable ==
    <<stmt("Solver")>>
    \o adds("paging_alias_wx", paging_alias_wx_c0_c4)
    \o <<stmt("push")>>
    \o adds("paging_alias_wx", <<"bind_param", "write_true">>)
    \o <<stmt("check"), stmt("pop"), stmt("return_is_sat")>>

paging_alias_wx_is_executable ==
    <<stmt("Solver")>>
    \o adds("paging_alias_wx", paging_alias_wx_c0_c4)
    \o <<stmt("push")>>
    \o adds("paging_alias_wx", <<"bind_param", "execute_true">>)
    \o <<stmt("check"), stmt("pop"), stmt("return_is_sat")>>

paging_alias_wx_is_alias_writable ==
    <<stmt("Solver")>>
    \o adds("paging_alias_wx", paging_alias_wx_c0_c4 \o paging_alias_wx_c5_c13)
    \o <<stmt("push")>>
    \o adds("paging_alias_wx", <<"bind_param", "write_true", "distinct_ro">>)
    \o <<stmt("check"), stmt("pop"), stmt("return_is_sat")>>

paging_alias_wx_is_alias_executable ==
    <<stmt("Solver")>>
    \o adds("paging_alias_wx", paging_alias_wx_c0_c4 \o paging_alias_wx_c5_c13)
    \o <<stmt("push")>>
    \o adds("paging_alias_wx", <<"bind_param", "execute_true", "distinct_nx">>)
    \o <<stmt("check"), stmt("pop"), stmt("return_is_sat")>>

paging_alias_wx_v1_base ==
    <<"map", "va_aligned", "pa_aligned", "wx", "write_sync", "exec_sync",
      "distinct", "map_va1", "map_va2", "va1_aligned", "va2_aligned">>

paging_alias_wx_v1_is_alias_writable ==
    <<stmt("Solver")>>
    \o adds("paging_alias_wx_v1", paging_alias_wx_v1_base)
    \o adds("paging_alias_wx_v1",
            <<"ro_differs", "ro_sync_va1", "nx_differs", "nx_sync_va2">>)
    \o <<stmt("push")>>
    \o adds("paging_alias_wx_v1", <<"bind_va", "write_true", "ro_differs">>)
    \o <<stmt("check"), stmt("pop"), stmt("return_is_sat")>>

paging_alias_wx_v1_is_alias_executable ==
    <<stmt("Solver")>>
    \o adds("paging_alias_wx_v1", paging_alias_wx_v1_base)
    \o adds("paging_alias_wx_v1", <<"nx_differs", "nx_sync_va2">>)
    \o <<stmt("push")>>
    \o adds("paging_alias_wx_v1", <<"bind_va", "execute_true", "nx_differs">>)
    \o <<stmt("check"), stmt("pop"), stmt("return_is_sat")>>

\* the scenario functions that take one address, two addresses, none
OneAddress ==
    {"wxvisor.basic_mapping", "wxvisor.is_writable", "wxvisor.is_executable",
     "wxvisor.is_writable_and_executable",
     "paging_wx_memory.is_writable", "paging_wx_memory.is_executable",
     "paging_wx_memory.basic_mapping",
     "paging_wx_memory.is_writable_and_executable",
     "paging_wx_memory_v1.is_writable", "paging_wx_memory_v1.is_executable",
     "paging_wx_memory_v1.is_writable_and_executable",
     "paging_alias_wx.is_writable", "paging_alias_wx.is_executable",
     "paging_alias_wx.is_alias_writable", "paging_alias_wx.is_alias_executable",
     "paging_alias_wx_v1.is_alias_writable",
     "paging_alias_wx_v1.is_alias_executable"}

TwoAddresses ==
    {"wxvisor.alias_mapping", "wxvisor.is_va_writable_but_alias_read_only",
     "wxvisor.is_va_executable_but_alias_nx"}

NoAddress ==
    {"paging.script", "paging_v2.basic_mapping", "paging_alias.script",
     "paging_alias_v2.alias_mapping", "paging_alias_v2.basic_mapping"}

Scenarios == OneAddress \cup TwoAddresses \cup NoAddress

Program(f) ==
    CASE f = "wxvisor.basic_mapping" -> wxvisor_basic_mapping
      [] f = "wxvisor.alias_mapping" -> wxvisor_alias_mapping
      [] f = "wxvisor.is_writable"   -> wxvisor_is_writable
      [] f = "wxvisor.is_executable" -> wxvisor_is_executable
      [] f = "wxvisor.is_writable_and_executable" ->
            wxvisor_is_writable_and_executable
      [] f = "wxvisor.is_va_writable_but_alias_read_only" ->
            wxvisor_is_va_writable_but_alias_read_only
      [] f = "wxvisor.is_va_executable_but_alias_nx" ->
            wxvisor_is_va_executable_but_alias_nx
      [] f = "paging_wx_memory.is_writable"   -> paging_wx_memory_is_writable
      [] f = "paging_wx_memory.is_executable" -> paging_wx_memory_is_executable
      [] f = "paging_wx_memory.basic_mapping" -> paging_wx_memory_basic_mapping
      [] f = "paging_wx_memory.is_writable_and_executable" ->
            paging_wx_memory_is_writable_and_executable
      [] f = "paging_wx_memory_v1.is_writable" ->
            paging_wx_memory_v1_is_writable
      [] f = "paging_wx_memory_v1.is_executable" ->
            paging_wx_memory_v1_is_executable
      [] f = "paging_wx_memory_v1.is_writable_and_executable" ->
            paging_wx_memory_v1_is_writable_and_executable
      [] f = "paging_alias_wx.is_writable"   -> paging_alias_wx_is_writable
      [] f = "paging_alias_wx.is_executable" -> paging_alias_wx_is_executable
      [] f = "paging_alias_wx.is_alias_writable" ->
            paging_alias_wx_is_alias_writable
      [] f = "paging_alias_wx.is_alias_executable" ->
            paging_alias_wx_is_alias_executable
      [] f = "paging_alias_wx_v1.is_alias_writable" ->
            paging_alias_wx_v1_is_alias_writable
      [] f = "paging_alias_wx_v1.is_alias_executable" ->
            paging_alias_wx_v1_is_alias_executable
      [] f = "paging.script"                 -> paging_script
      [] f = "paging_v2.basic_mapping"       -> paging_v2_basic_mapping
      [] f = "paging_alias.script"           -> paging_alias_script
      [] f = "paging_alias_v2.alias_mapping" -> paging_alias_v2_alias_mapping
      [] f = "paging_alias_v2.basic_mapping" -> paging_alias_v2_basic_mapping

\* the argument tuples a caller may pass to f
Arguments(f) ==
    IF f \in OneAddress THEN {<<v>> : v \in Literals}
    ELSE IF f \in TwoAddresses THEN Literals \X Literals
    ELSE {<<>>}

\* ----------------------------------------------------- the state machine
Init ==
    /\ fn = "none"
    /\ args = <<>>
    /\ ip = 0
    /\ solver = <<>>
    /\ CheckSatResult = "none"
    /\ outcome = "none"
    /\ ncalls = 0
    /\ previous = "none"

Running == ip > 0

Statement == Program(fn)[ip]

\* everything asserted in the solver, over all its scopes
Assertions(s) == UNION {s[i] : i \in 1 .. Len(s)}

\* a caller invokes scenario function f with arguments a
Call(f, a) ==
    /\ ip = 0 /\ fn = "none"
    /\ ncalls < MaxCalls
    /\ fn' = f
    /\ args' = a
    /\ ip' = 1
    /\ solver' = <<>>
    /\ CheckSatResult' = "none"
    /\ outcome' = "none"
    /\ ncalls' = ncalls + 1
    /\ previous' = "none"

\* s = Solver(): a new solver with nothing asserted
NewSolver ==
    /\ Running /\ Statement.op = "Solver"
    /\ solver' = <<{}>>
    /\ ip' = ip + 1
    /\ UNCHANGED <<fn, args, CheckSatResult, outcome, ncalls, previous>>

\* s.push(): open a scope
Push ==
    /\ Running /\ Statement.op = "push"
    /\ solver' = Append(solver, {})
    /\ ip' = ip + 1
    /\ UNCHANGED <<fn, args, CheckSatResult, outcome, ncalls, previous>>

\* s.add(c): assert c in the innermost scope
Add ==
    /\ Running /\ Statement.op = "add"
    /\ solver' = [solver EXCEPT ![Len(solver)] = @ \cup {Statement.c}]
    /\ ip' = ip + 1
    /\ UNCHANGED <<fn, args, CheckSatResult, outcome, ncalls, previous>>

\* faulty variant: a solver whose answer does not depend on the assertions
\* alone
Check_may_give_up ==
    /\ Running /\ Statement.op = "check"
    /\ CheckSatResult' \in {check(Assertions(solver), args), "unknown"}
    /\ ip' = ip + 1
    /\ UNCHANGED <<fn, args, solver, outcome, ncalls, previous>>

\* CheckSatResult = s.check()
Check ==
    /\ Running /\ Statement.op = "check"
    /\ CheckSatResult' = check(Assertions(solver), args)
    /\ ip' = ip + 1
    /\ UNCHANGED <<fn, args, solver, outcome, ncalls, previous>>

\* s.pop(): drop the innermost scope
Pop ==
    /\ Running /\ Statement.op = "pop"
    /\ solver' = SubSeq(solver, 1, Len(solver) - 1)
    /\ ip' = ip + 1
    /\ UNCHANGED <<fn, args, CheckSatResult, outcome, ncalls, previous>>

\* faulty variant: the solver outlives the call (a solver shared by the
\* scenario functions)
Return_keeps_solver ==
    /\ Running /\ Statement.op = "return"
    /\ outcome' = CheckSatResult
    /\ ip' = 0
    /\ CheckSatResult' = "none"
    /\ UNCHANGED <<fn, args, solver, ncalls, previous>>

\* return CheckSatResult: the verdict reaches the caller, the solver is
\* local to the call
Return ==
    /\ Running /\ Statement.op = "return"
    /\ outcome' = CheckSatResult
    /\ ip' = 0
    /\ solver' = <<>>
    /\ CheckSatResult' = "none"
    /\ UNCHANGED <<fn, args, ncalls, previous>>

\* the Python value of the comparison r == sat
IsSat(r) == IF r = "sat" THEN "True" ELSE "False"

\* return CheckSatResult == sat: the caller gets a Python bool
ReturnIsSat ==
    /\ Running /\ Statement.op = "return_is_sat"
    /\ outcome' = IsSat(CheckSatResult)
    /\ ip' = 0
    /\ solver' = <<>>
    /\ CheckSatResult' = "none"
    /\ UNCHANGED <<fn, args, ncalls, previous>>

\* the module-level scripts print their verdict and end
PrintVerdict ==
    /\ Running /\ Statement.op = "print"
    /\ outcome' = IF CheckSatResult = "sat" THEN "satisfiable"
                  ELSE "unsatisfiable"
    /\ ip' = 0
    /\ solver' = <<>>
    /\ CheckSatResult' = "none"
    /\ UNCHANGED <<fn, args, ncalls, previous>>

\* the caller has read the verdict of the last call and goes on
Continue ==
    /\ ip = 0 /\ fn # "none"
    /\ fn' = "none"
    /\ args' = <<>>
    /\ outcome' = "none"
    /\ previous' = "none"
    /\ UNCHANGED <<ip, solver, CheckSatResult, ncalls>>

\* the caller invokes the same scenario function again with the same
\* arguments (the module-level calls of an import, then the caller's own)
Repeat ==
    /\ ip = 0 /\ fn # "none"
    /\ ncalls < MaxCalls
    /\ previous' = outcome
    /\ ip' = 1
    /\ solver' = <<>>
    /\ CheckSatResult' = "none"
    /\ outcome' = "none"
    /\ ncalls' = ncalls + 1
    /\ UNCHANGED <<fn, args>>

Next ==
    \/ \E f \in Scenarios : \E a \in Arguments(f) : Call(f, a)
    \/ NewSolver
    \/ Push
    \/ Add
    \/ Check
    \/ Pop
    \/ Return
    \/ ReturnIsSat
    \/ PrintVerdict
    \/ Continue
    \/ Repeat

Spec == Init /\ [][Next]_vars

\* Solver.check() gives up (a timeout or resource limit set for the
\* process): the result is unknown
CheckUnknown ==
    /\ Running /\ Statement.op = "check"
    /\ CheckSatResult' = "unknown"
    /\ ip' = ip + 1
    /\ UNCHANGED <<fn, args, solver, outcome, ncalls, previous>>

NextUnknown == Next \/ CheckUnknown

\* the program with a solver that may give up
SpecUnknown == Init /\ [][NextUnknown]_vars


\* ================================================================ claims
\* the call of f has returned (its verdict is in outcome)
Returned(f) == ip = 0 /\ fn = f

\* the low PageBits bits of the literal v are zero
PageAligned(v) == BitAnd(v, PageMask) = 0

\* the literal v fits the address sort
FitsSort(v) == v \in BitVecSort

\* the assertions of the returning call, still in its solver
AtReturn(f) == fn = f /\ ip > 0 /\ Statement.op = "return"

\* C1: single-stage W^X: for every literal, is_writable_and_executable of
\* paging_wx_memory (both versions) returns unsat
C1_SingleStageWX ==
    (Returned("paging_wx_memory.is_writable_and_executable")
        \/ Returned("paging_wx_memory_v1.is_writable_and_executable"))
    => outcome = "unsat"

C1_Witness ==
    /\ Returned("paging_wx_memory.is_writable_and_executable")
    /\ PageAligned(args[1]) /\ args[1] > 0
    /\ outcome = "unsat"

\* C2: nested W^X: for every literal, wxvisor.is_writable_and_executable
\* returns unsat
C2_NestedWX ==
    Returned("wxvisor.is_writable_and_executable") => outcome = "unsat"

C2_Witness ==
    /\ Returned("wxvisor.is_writable_and_executable")
    /\ PageAligned(args[1]) /\ args[1] > 0
    /\ outcome = "unsat"

\* C3: nested write-bypass resistance: for every pair of literals,
\* wxvisor.is_va_writable_but_alias_read_only returns unsat
C3_WriteBypass ==
    Returned("wxvisor.is_va_writable_but_alias_read_only") => outcome = "unsat"

C3_Witness ==
    /\ Returned("wxvisor.is_va_writable_but_alias_read_only")
    /\ PageAligned(args[1]) /\ PageAligned(args[2])
    /\ FitsSort(args[1]) /\ FitsSort(args[2]) /\ args[1] # args[2]
    /\ outcome = "unsat"

\* C4: nested execute-bypass resistance: for every pair of literals,
\* wxvisor.is_va_executable_but_alias_nx returns unsat
C4_ExecuteBypass ==
    Returned("wxvisor.is_va_executable_but_alias_nx") => outcome = "unsat"

C4_Witness ==
    /\ Returned("wxvisor.is_va_executable_but_alias_nx")
    /\ PageAligned(args[1]) /\ PageAligned(args[2])
    /\ FitsSort(args[1]) /\ FitsSort(args[2]) /\ args[1] # args[2]
    /\ outcome = "unsat"

paging_alias_v2_ro_part == {<<"paging_alias_v2", "ro_differs">>}

paging_alias_v2_nx_part == {<<"paging_alias_v2", "nx_differs">>}

paging_alias_v2_syncs ==
    {<<"paging_alias_v2", "ro_sync_va1">>, <<"paging_alias_v2", "nx_sync_va2">>}

paging_alias_syncs ==
    {<<"paging_alias", "constraint11">>, <<"paging_alias", "constraint13">>}

\* C5: single-stage aliasing with permission synchronization:
\* paging_alias.alias_mapping() returns unsat (the module-level script of
\* paging_alias.py prints unsatisfiable), and the set is unsatisfiable with
\* either one of the two differences alone: ro_bits(va) != ro_bits(va1), or
\* nx_bits(va) != nx_bits(va2)
C5_AliasSync ==
    /\ Returned("paging_alias_v2.alias_mapping") => outcome = "unsat"
    /\ Returned("paging_alias.script") => outcome = "unsatisfiable"
    /\ AtReturn("paging_alias_v2.alias_mapping") =>
          /\ check(Assertions(solver) \ paging_alias_v2_nx_part, args) = "unsat"
          /\ check(Assertions(solver) \ paging_alias_v2_ro_part, args) = "unsat"

C5_Witness ==
    /\ AtReturn("paging_alias_v2.alias_mapping")
    /\ CheckSatResult = "unsat"
    /\ paging_alias_v2_syncs \subseteq Assertions(solver)

\* C6: single-stage aliasing without synchronization is satisfiable: the
\* assertions of alias_mapping without ro_bits(va1) == phy_ro(pa) and
\* nx_bits(va2) == phy_nx(pa) have a satisfying interpretation, and with
\* them they have none
C6_AliasNoSync ==
    /\ AtReturn("paging_alias_v2.alias_mapping") =>
          /\ check(Assertions(solver) \ paging_alias_v2_syncs, args) = "sat"
          /\ check(Assertions(solver), args) = "unsat"
    /\ (fn = "paging_alias.script" /\ ip > 0 /\ Statement.op = "print") =>
          /\ check(Assertions(solver) \ paging_alias_syncs, args) = "sat"
          /\ check(Assertions(solver), args) = "unsat"

C6_Witness ==
    /\ AtReturn("paging_alias_v2.alias_mapping")
    /\ <<"paging_alias_v2", "ro_differs">> \in Assertions(solver)
    /\ check(Assertions(solver) \ paging_alias_v2_syncs, args) = "sat"

\* C7: basic_mapping is satisfiable: paging.basic_mapping() and
\* paging_alias.basic_mapping() return sat, and for every literal whose low
\* PageBits bits are zero paging_wx_memory.basic_mapping and
\* wxvisor.basic_mapping return sat
C7_BasicMapping ==
    /\ (Returned("paging_v2.basic_mapping")
            \/ Returned("paging_alias_v2.basic_mapping")) => outcome = "sat"
    /\ ((Returned("paging_wx_memory.basic_mapping")
            \/ Returned("wxvisor.basic_mapping")) /\ PageAligned(args[1]))
        => outcome = "sat"

C7_Witness ==
    /\ Returned("wxvisor.basic_mapping")
    /\ PageAligned(args[1]) /\ args[1] > 0
    /\ outcome = "sat"

\* C8: the W^X models are not vacuous: for every literal whose low PageBits
\* bits are zero, is_writable and is_executable return sat, in
\* paging_wx_memory (both versions) and in wxvisor
C8_NotVacuous ==
    ((Returned("paging_wx_memory.is_writable")
        \/ Returned("paging_wx_memory.is_executable")
        \/ Returned("paging_wx_memory_v1.is_writable")
        \/ Returned("paging_wx_memory_v1.is_executable")
        \/ Returned("wxvisor.is_writable")
        \/ Returned("wxvisor.is_executable")) /\ PageAligned(args[1]))
    => outcome = "sat"

C8_Witness ==
    /\ Returned("wxvisor.is_executable")
    /\ PageAligned(args[1]) /\ args[1] > 0
    /\ outcome = "sat"

\* C9: nested alias mapping without permission synchronization is
\* satisfiable: for every pair of page-aligned literals that are distinct as
\* values of the address sort, wxvisor.alias_mapping returns sat
C9_NestedAliasMapping ==
    (/\ Returned("wxvisor.alias_mapping")
     /\ PageAligned(args[1]) /\ PageAligned(args[2])
     /\ BitVecVal(args[1]) # BitVecVal(args[2]))
    => outcome = "sat"

C9_Witness ==
    /\ Returned("wxvisor.alias_mapping")
    /\ PageAligned(args[1]) /\ PageAligned(args[2])
    /\ FitsSort(args[1]) /\ FitsSort(args[2]) /\ args[1] # args[2]
    /\ outcome = "sat"

\* the literal v is an address of the declared width and page-aligned
InInputDomain(v) == FitsSort(v) /\ PageAligned(v)

\* C10: input-domain rejection: a scenario function called with a literal
\* whose low PageBits bits are nonzero, or that does not fit the address
\* sort, raises InputDomainError and yields no sat/unsat verdict
C10_InputDomainRejection ==
    (/\ ip = 0 /\ fn \in OneAddress \cup TwoAddresses
     /\ \E i \in 1 .. Len(args) : ~InInputDomain(args[i]))
    => outcome = "InputDomainError"

\* C11: an unknown result of the solver is surfaced as a verdict distinct
\* from unsatisfiable: whenever a scenario function returns after the solver
\* answered unknown, the value it returns differs from the value it returns
\* when the solver answers unsat
C11_UnknownDistinct ==
    [][/\ (Return /\ CheckSatResult = "unknown") => outcome' # "unsat"
       /\ (ReturnIsSat /\ CheckSatResult = "unknown")
              => outcome' # IsSat("unsat")]_vars

\* the scenario functions of wxvisor.py and paging_wx_memory.py
IsolatedScenarios ==
    {"wxvisor.basic_mapping", "wxvisor.alias_mapping", "wxvisor.is_writable",
     "wxvisor.is_executable", "wxvisor.is_writable_and_executable",
     "wxvisor.is_va_writable_but_alias_read_only",
     "wxvisor.is_va_executable_but_alias_nx",
     "paging_wx_memory.is_writable", "paging_wx_memory.is_executable",
     "paging_wx_memory.basic_mapping",
     "paging_wx_memory.is_writable_and_executable"}

\* the assertions the statements 1 .. n of scenario function f add
AddedBy(f, n) ==
    {Program(f)[i].c : i \in {j \in 1 .. n : Program(f)[j].op = "add"}}

\* C12: query isolation: in every invocation of a wxvisor or
\* paging_wx_memory function, first or later, the solver holds no assertion
\* but those the invocation itself has added, no solver is left when the
\* invocation is over, and the verdict is the one the function's own
\* assertions give on a fresh solver
C12_QueryIsolation ==
    /\ ip = 0 => solver = <<>>
    /\ (Running /\ fn \in IsolatedScenarios)
          => Assertions(solver) \subseteq AddedBy(fn, ip - 1)
    /\ (ip = 0 /\ fn \in IsolatedScenarios)
          => outcome = check(AddedBy(fn, Len(Program(fn))), args)

C12_Witness ==
    /\ ncalls = 2 /\ previous = "none"
    /\ Returned("wxvisor.is_executable")
    /\ PageAligned(args[1]) /\ args[1] > 0
    /\ outcome = "sat"

Checked == Running /\ ip > 1 /\ Program(fn)[ip - 1].op = "check"

\* no satisfying assignment of the assertions C satisfies the query q
NoModel(C, a, q) == check(C \cup {<<"query", q>>}, a) = "unsat"

\* some satisfying assignment of the assertions C satisfies the query q
SomeModel(C, a, q) == check(C \cup {<<"query", q>>}, a) = "sat"

\* C14: literal binding is effective: in every satisfying assignment of the
\* assertions a scenario function checks, va equals the literal passed as
\* first argument, and va1 the literal passed as second argument of a
\* two-address function
C14_LiteralBinding ==
    (Checked /\ fn \in OneAddress \cup TwoAddresses) =>
        /\ NoModel(Assertions(solver), args, "va_not_literal")
        /\ fn \in TwoAddresses =>
              NoModel(Assertions(solver), args, "va1_not_literal")

\* the checked assertions include the wxvisor constraints named in names
Asserts(names) == \A n \in names : <<"wxvisor", n>> \in Assertions(solver)

\* C15: nested least-privilege combination: in every satisfying assignment
\* of a wxvisor scenario that asserts constraint9 and constraint10, the
\* physical read-only flag of the frame of va is the OR of ro_bits(va),
\* ro_bits2(mmu1(va)), ro_bits(va1) and ro_bits2(mmu1(va1)), and the physical
\* non-executable flag is the OR of the four non-executable flags
C15_LeastPrivilege ==
    (Checked /\ Asserts({"constraint9", "constraint10"})) =>
        /\ NoModel(Assertions(solver), args, "ro_not_combined")
        /\ NoModel(Assertions(solver), args, "nx_not_combined")

\* the checked assertions include assertion n of module m
Has(m, n) == <<m, n>> \in Assertions(solver)

\* C16: conditional synchronization: in every satisfying assignment of a
\* scenario that asserts write == True the declared and the physical
\* read-only flags of va are false, and in every satisfying assignment of a
\* scenario that asserts execute == True the declared and the physical
\* non-executable flags are false; for the scenarios of paging_wx_memory,
\* wxvisor and paging_alias_wx_unsatisfiable that assert the module's
\* conditional synchronization constraints
C16_ConditionalSync ==
    Checked =>
        /\ ((Has("paging_wx_memory", "write_true")
                /\ Has("paging_wx_memory", "constraint3"))
            \/ (Has("paging_alias_wx", "write_true")
                /\ Has("paging_alias_wx", "constraint3")))
              => NoModel(Assertions(solver), args, "write_ro_single")
        /\ ((Has("paging_wx_memory", "execute_true")
                /\ Has("paging_wx_memory", "constraint5"))
            \/ (Has("paging_alias_wx", "execute_true")
                /\ Has("paging_alias_wx", "constraint4")))
              => NoModel(Assertions(solver), args, "exec_nx_single")
        /\ (Has("wxvisor", "write_true") /\ Has("wxvisor", "constraint12"))
              => NoModel(Assertions(solver), args, "write_ro_nested")
        /\ (Has("wxvisor", "execute_true") /\ Has("wxvisor", "constraint14"))
              => NoModel(Assertions(solver), args, "exec_nx_nested")

\* C17: two-state frame classification: in every satisfying assignment of a
\* scenario that asserts the physical W^X constraint exactly one of phy_ro
\* and phy_nx of the frame of va is true; in every satisfying assignment of
\* is_writable the frame has phy_ro false and phy_nx true, and in every
\* satisfying assignment of is_executable phy_nx false and phy_ro true
C17_TwoStateFrame ==
    Checked =>
        /\ (Has("paging_wx_memory", "constraint_wx")
                \/ Has("paging_wx_memory_v1", "wx"))
              => NoModel(Assertions(solver), args, "not_exclusive_single")
        /\ Has("wxvisor", "constraint_wx")
              => NoModel(Assertions(solver), args, "not_exclusive_nested")
        /\ fn \in {"paging_wx_memory.is_writable",
                   "paging_wx_memory_v1.is_writable"}
              => NoModel(Assertions(solver), args, "not_data_single")
        /\ fn \in {"paging_wx_memory.is_executable",
                   "paging_wx_memory_v1.is_executable"}
              => NoModel(Assertions(solver), args, "not_code_single")
        /\ fn = "wxvisor.is_writable"
              => NoModel(Assertions(solver), args, "not_data_nested")
        /\ fn = "wxvisor.is_executable"
              => NoModel(Assertions(solver), args, "not_code_nested")

C17_Witness ==
    /\ Checked /\ fn = "paging_wx_memory.is_executable"
    /\ Has("paging_wx_memory", "constraint_wx")
    /\ CheckSatResult = "sat"
    /\ PageAligned(args[1]) /\ args[1] > 0

\* the checked assertions declare aliases of va: Distinct(va, va1, va2)
DeclaresAliases ==
    \/ Has("wxvisor", "constraint5")
    \/ Has("paging_alias", "constraint5")
    \/ Has("paging_alias_v2", "distinct")
    \/ Has("paging_alias_wx", "constraint5")
    \/ Has("paging_alias_wx_v1", "distinct")

\* C18: alias alignment: in every satisfying assignment of a scenario that
\* declares aliases, va1 and va2 have their low PageBits bits zero; so
\* wxvisor.alias_mapping called with a second literal whose low bits are
\* nonzero returns unsat
C18_AliasAlignment ==
    /\ (Checked /\ DeclaresAliases) =>
          /\ NoModel(Assertions(solver), args, "va1_unaligned")
          /\ NoModel(Assertions(solver), args, "va2_unaligned")
    /\ (Returned("wxvisor.alias_mapping") /\ ~PageAligned(args[2]))
          => outcome = "unsat"

\* C19: alias co-mapping: in every satisfying assignment of a scenario that
\* declares va1 and va2 as aliases of va, mmu1(va1) = mmu1(va) and
\* mmu1(va2) = mmu1(va)
C19_AliasCoMapping ==
    (Checked /\ DeclaresAliases) =>
        /\ NoModel(Assertions(solver), args, "va1_not_co_mapped")
        /\ NoModel(Assertions(solver), args, "va2_not_co_mapped")

\* the wxvisor assertions over addresses and translations alone
wxvisor_translation ==
    {<<"wxvisor", n>> : n \in {"constraint0", "constraint1", "constraint2",
                               "constraint3", "constraint4", "constraint5",
                               "constraint6", "constraint7", "constraint8",
                               "bind_va", "bind_va1"}}

\* C20: stage 2 forbids aliasing: in every satisfying assignment of a wxvisor
\* scenario that asserts constraint8, if va and va1 resolve to the same frame,
\* mmu2(mmu1(va)) = mmu2(mmu1(va1)), then mmu1(va) = mmu1(va1).  Already the
\* scenario's assertions over addresses and translations exclude the case,
\* so the scenario's whole set does
C20_Stage2NoAlias ==
    (Checked /\ Has("wxvisor", "constraint8")) =>
        NoModel(Assertions(solver) \cap wxvisor_translation, args,
                "frame_shared")

C20_Witness ==
    /\ Checked /\ fn = "wxvisor.alias_mapping"
    /\ Has("wxvisor", "constraint8")
    /\ CheckSatResult = "sat"
    /\ PageAligned(args[1]) /\ PageAligned(args[2]) /\ args[1] # args[2]

AliasWXQueries ==
    {"paging_alias_wx.is_alias_writable", "paging_alias_wx.is_alias_executable",
     "paging_alias_wx_v1.is_alias_writable",
     "paging_alias_wx_v1.is_alias_executable"}

\* the assertions named ns of module m
Of(m, ns) == {<<m, n>> : n \in ns}

\* C22: single-stage alias W^X check: is_alias_writable and
\* is_alias_executable of paging_alias_wx_unsatisfiable return False for
\* every literal, in both versions of the module; the cause is that with
\* write = true (execute = true) the synchronized flag of va and of the
\* co-mapped alias both equal the physical flag while the alias must declare
\* a different flag: those assertions alone, which each query holds when it
\* checks, are unsatisfiable
C22_AliasWXUnsat ==
    /\ \A f \in AliasWXQueries : Returned(f) => outcome = "False"
    /\ (Checked /\ fn = "paging_alias_wx.is_alias_writable") =>
          LET core == Of("paging_alias_wx",
                         {"constraint0", "constraint3", "constraint6",
                          "constraint10", "constraint11", "write_true"})
          IN  core \subseteq Assertions(solver) /\ check(core, args) = "unsat"
    /\ (Checked /\ fn = "paging_alias_wx.is_alias_executable") =>
          LET core == Of("paging_alias_wx",
                         {"constraint0", "constraint4", "constraint7",
                          "constraint12", "constraint13", "execute_true"})
          IN  core \subseteq Assertions(solver) /\ check(core, args) = "unsat"
    /\ (Checked /\ fn = "paging_alias_wx_v1.is_alias_writable") =>
          LET core == Of("paging_alias_wx_v1",
                         {"write_sync", "ro_differs", "ro_sync_va1",
                          "write_true"})
          IN  core \subseteq Assertions(solver) /\ check(core, args) = "unsat"
    /\ (Checked /\ fn = "paging_alias_wx_v1.is_alias_executable") =>
          LET core == Of("paging_alias_wx_v1",
                         {"exec_sync", "nx_differs", "nx_sync_va2",
                          "execute_true"})
          IN  core \subseteq Assertions(solver) /\ check(core, args) = "unsat"

C22_Witness ==
    /\ Returned("paging_alias_wx.is_alias_writable")
    /\ outcome = "False" /\ PageAligned(args[1]) /\ FitsSort(args[1])

\* constraint9, constraint12, write = true and ro_bits(va1) != ro_bits(va);
\* none of them mentions a literal
BypassCoreRO ==
    Of("wxvisor", {"constraint9", "constraint12", "write_true", "distinct_ro"})

\* constraint10, constraint14, execute = true and nx_bits(va1) != nx_bits(va)
BypassCoreNX ==
    Of("wxvisor", {"constraint10", "constraint14", "execute_true",
                   "distinct_nx"})

\* the verdicts on the two sets alone
BypassCoreROVerdict == check(BypassCoreRO, <<0, 0>>)

BypassCoreNXVerdict == check(BypassCoreNX, <<0, 0>>)

\* the stage-2 no-alias rule and the W^X constraint
NoAliasAndWX == Of("wxvisor", {"constraint8", "constraint_wx"})

\* C23: the unsat verdict of the two nested bypass queries does not rest on
\* the stage-2 no-alias rule or on W^X: the set checked by
\* wxvisor.is_va_writable_but_alias_read_only is still unsatisfiable without
\* constraint8 and constraint_wx, and already constraint9, constraint12,
\* write = true and ro_bits(va1) != ro_bits(va), which it contains, are
\* contradictory; likewise is_va_executable_but_alias_nx with constraint10,
\* constraint14, execute = true and nx_bits(va1) != nx_bits(va)
C23_BypassCore ==
    /\ (Checked /\ fn = "wxvisor.is_va_writable_but_alias_read_only") =>
          /\ BypassCoreRO \subseteq Assertions(solver)
          /\ BypassCoreROVerdict = "unsat"
          /\ check(Assertions(solver) \ NoAliasAndWX, args) = "unsat"
    /\ (Checked /\ fn = "wxvisor.is_va_executable_but_alias_nx") =>
          /\ BypassCoreNX \subseteq Assertions(solver)
          /\ BypassCoreNXVerdict = "unsat"
          /\ check(Assertions(solver) \ NoAliasAndWX, args) = "unsat"

C23_Witness ==
    /\ Checked /\ fn = "wxvisor.is_va_writable_but_alias_read_only"
    /\ CheckSatResult = "unsat"
    /\ NoAliasAndWX \subseteq Assertions(solver)
    /\ PageAligned(args[1]) /\ PageAligned(args[2])
    /\ BitVecVal(args[1]) # BitVecVal(args[2])

\* the checked assertions without constraint9
WithoutConstraint9 == Assertions(solver) \ Of("wxvisor", {"constraint9"})

\* C24: constraint9 repeats ro_bits2(mmu1(va)) where constraint10 has the
\* flag of mmu1(va1).  In a wxvisor scenario with constraint9 and the alias
\* mapping constraint6, among the assignments that satisfy the scenario's
\* assertions over addresses and translations (hence among those that
\* satisfy all its assertions), constraint9 and phy_ro(frame) = ro_bits(va)
\* OR ro_bits2(mmu1(va)) OR ro_bits(va1) OR ro_bits2(mmu1(va1)) have the same
\* truth value wherever mmu1(va1) = mmu1(va); for wxvisor.alias_mapping with
\* page-aligned literals that differ as addresses there is an assignment
\* with mmu1(va1) # mmu1(va) on which the two forms differ
C24_Constraint9Forms ==
    /\ (Checked /\ Asserts({"constraint6", "constraint9"})) =>
          NoModel(Assertions(solver) \cap wxvisor_translation, args,
                  "ro_forms_differ_co_mapped")
    /\ (/\ Checked /\ fn = "wxvisor.alias_mapping"
        /\ PageAligned(args[1]) /\ PageAligned(args[2])
        /\ BitVecVal(args[1]) # BitVecVal(args[2])) =>
          SomeModel(WithoutConstraint9, args, "ro_forms_differ_apart")

C24_Witness ==
    /\ Checked /\ fn = "wxvisor.alias_mapping"
    /\ Asserts({"constraint6", "constraint9"})
    /\ PageAligned(args[1]) /\ PageAligned(args[2])
    /\ BitVecVal(args[1]) # BitVecVal(args[2])
    /\ SomeModel(Assertions(solver), args, "va1_co_mapped")
    /\ SomeModel(WithoutConstraint9, args, "ro_forms_differ_apart")

\* C25: the declared flags of va1 restrict the frame of va even when va1 is
\* no alias of va: the set checked by wxvisor.is_writable has no satisfying
\* assignment with ro_bits(va1) = true and mmu1(va1) # mmu1(va), and the set
\* checked by wxvisor.is_executable none with nx_bits(va1) = true and
\* mmu1(va1) # mmu1(va), although each set, where satisfiable, has
\* assignments with mmu1(va1) # mmu1(va)
C25_NonAliasRestricts ==
    /\ (Checked /\ fn = "wxvisor.is_writable") =>
          /\ NoModel(Assertions(solver), args, "va1_read_only_apart")
          /\ CheckSatResult = "sat" =>
                SomeModel(Assertions(solver), args, "va1_not_co_mapped")
    /\ (Checked /\ fn = "wxvisor.is_executable") =>
          /\ NoModel(Assertions(solver), args, "va1_nx_apart")
          /\ CheckSatResult = "sat" =>
                SomeModel(Assertions(solver), args, "va1_not_co_mapped")

C25_Witness ==
    /\ Checked /\ fn = "wxvisor.is_executable"
    /\ CheckSatResult = "sat"
    /\ SomeModel(Assertions(solver), args, "va1_not_co_mapped")
    /\ NoModel(Assertions(solver), args, "va1_nx_apart")

====
